---- MODULE Spec2Model ----
(***************************************************************************)
(* The posting pipeline of backend/src/improved_note_poster.py:            *)
(* NoteAuthenticator.get_cookies, NotePoster._make_request,                *)
(* create_article, upload_image, update_article_draft and post_to_note.    *)
(*                                                                         *)
(* One behaviour is a sequence of runs of post_to_note on one NotePoster   *)
(* instance.  Every call of session.request is one step (MakeRequest), so  *)
(* the retry loop of _make_request is visible attempt by attempt.          *)
(* Python values: None is the string "None", a dict with optional keys is  *)
(* a record whose DOMAIN holds the keys that are present.                  *)
(*                                                                         *)
(* Six specifications share the variables:                                 *)
(*   Spec        runs of post_to_note on one instance;                     *)
(*   LegacySpec  the pipeline of backend/src/note_poster.py;               *)
(*   DirectSpec  the three stage methods called on their own;              *)
(*   PairSpec    two instances running side by side;                       *)
(*   RenderSpec  the two renderings of one run, on real texts;             *)
(*   FairSpec    Spec with every blocking call returning.                  *)
(***************************************************************************)
EXTENDS Integers, Sequences, FiniteSets, TLC

VARIABLES
    runs,              \* number of post_to_note calls started on this instance
    pc,                \* position inside post_to_note
    authCookies,       \* NoteAuthenticator.cookies (self.cookies)
    driver,            \* the browser of the current get_cookies call
    title,             \* argument of post_to_note
    markdown_content,  \* argument of post_to_note
    image_path,        \* argument of post_to_note
    cookies,           \* local of post_to_note
    article_id,        \* local of post_to_note
    article_key,       \* local of post_to_note
    image_key,         \* local of post_to_note
    calls,             \* invocations of each collaborator in this run
    passed,            \* the cookies argument each stage was called with
    wire,              \* the requests handed to session.request in this run
    drafts,            \* create requests the platform received and could act on
    attempt,           \* loop variable of _make_request (next attempt index)
    outcomes,          \* what session.request did, attempt by attempt
    sleeps,            \* the time.sleep calls of the current _make_request call
    ret,               \* what the current _make_request call returned
    request,           \* the arguments of the current _make_request call
    resp,              \* per stage, what _make_request handed to the stage
    file,              \* the file system as upload_image saw it
    handle,            \* position of the file object upload_image opened
    success,           \* return value of update_article_draft
    result,            \* return value of post_to_note
    url,               \* the article URL post_to_note logged
    log                \* logger.error lines of this run

vars == << runs, pc, authCookies, driver, title, markdown_content, image_path,
           cookies, article_id, article_key, image_key, calls, passed, wire,
           drafts, attempt, outcomes, sleeps, ret, request, resp, file, handle, success,
           result, url, log >>

(***************************************************************************)
(* Program constants (class Config) and the bounds of the model.           *)
(***************************************************************************)
MAX_RETRIES == 3
WAIT_TIME == 2
MAX_IMAGE_BYTES == 10 * 1024 * 1024

\* post_to_note is called at most MaxRuns times on the instance.
MaxRuns == 2

Stages == {"create", "upload", "finalize"}
Collaborators == {"auth"} \cup Stages

\* Status codes the platform answers with: success, another 2xx, an
\* auth-style rejection, rate limiting, a server error.
Statuses == {200, 201, 401, 429, 500}

\* What one call of session.request can do: answer with a status, raise a
\* requests RequestException ("fault"), or, when the body is an open file,
\* raise the OSError of a failed read ("oserror").
Answer(status) == [kind |-> "status", status |-> status]
Fault == [kind |-> "fault", status |-> 0]
ReadError == [kind |-> "oserror", status |-> 0]
Outcomes(stage) ==
    {Answer(s) : s \in Statuses} \cup {Fault}
        \cup (IF stage = "upload" THEN {ReadError} ELSE {})

\* Whether the platform received a request, given what session.request did
\* with it: a status answer comes from the platform; a RequestException is
\* raised before the request left (connection refused, DNS) or after it
\* arrived (read timeout, connection reset); a failed read of the file
\* happens while the body is being built.
Received(o) ==
    CASE o.kind = "status" -> {TRUE}
      [] o.kind = "fault" -> BOOLEAN
      [] OTHER -> {FALSE}

\* The platform can act on a request it received unless it answered 429,
\* which is its refusal to act.
Actionable(o, received) == received /\ ~(o.kind = "status" /\ o.status = 429)

\* The drafts the platform may hold after one more request: only a create
\* request (POST text_notes) it can act on adds one.
Drafts(count, stage, o, received) ==
    IF stage = "create" /\ Actionable(o, received) THEN count + 1 ELSE count

Titles == {"T"}
Markdowns == {"# H"}
ImagePaths == {"None", "", "img.png"}

\* Python truthiness of an Optional[str].
Truthy(v) == v \notin {"None", ""}

(***************************************************************************)
(* Cookie bundles.  A bundle is None or a dict, the dict being the set of  *)
(* its (name, value) pairs.                                                *)
(***************************************************************************)
NoneCookies == [isNone |-> TRUE, jar |-> {}]
Dict(jar) == [isNone |-> FALSE, jar |-> jar]
\* `if not cookies`: None and the empty dict are both falsy.
CookiesTruthy(c) == ~c.isNone /\ c.jar # {}

\* The cookie jars the browser can hold after the login wait.
BrowserJars ==
    { {},
      {<<"session", "s1">>},
      {<<"session", "s2">>, <<"csrf", "c2">>} }

(***************************************************************************)
(* NoteAuthenticator.get_cookies.  `browser` is how the scripted login     *)
(* went: "nodriver" (webdriver.Chrome raised, no driver exists),           *)
(* "timeout", "webdriver", "other" (the fault raised with a driver open),  *)
(* or "ok"; `jar` is what driver.get_cookies() holds; `quitOk` tells       *)
(* whether driver.quit() in the finally clause returns or raises.          *)
(***************************************************************************)
BrowserOutcomes == {"nodriver", "timeout", "webdriver", "other", "ok"}

AuthLog(browser) ==
    CASE browser = "timeout" -> <<"login_timeout">>
      [] browser \in {"webdriver", "nodriver"} -> <<"webdriver_error">>
      [] browser = "other" -> <<"login_unexpected">>
      [] OTHER -> << >>

\* The browser of one get_cookies call: whether webdriver.Chrome returned a
\* driver, how often driver.quit() was called, by which path the try block
\* was left, and whether the call raised instead of returning.
Browser(created, quits, exit, raised) ==
    [created |-> created, quits |-> quits, exit |-> exit, raised |-> raised]

\* Mutant: driver.quit() is the last statement of the try block instead of
\* a finally clause.
get_cookies_QuitInTry(browser, jar, quitOk) ==
    LET created == browser # "nodriver"
        quits == IF browser = "ok" THEN 1 ELSE 0
        raised == FALSE
    IN
    [ raised  |-> raised,
      value   |-> IF browser = "ok" /\ quitOk THEN Dict(jar) ELSE NoneCookies,
      stored  |-> browser = "ok",
      driver  |-> Browser(created, quits, browser, raised),
      log     |-> AuthLog(browser) ]

get_cookies(browser, jar, quitOk) ==
    LET created == browser # "nodriver"
        quits == IF created THEN 1 ELSE 0
        raised == created /\ ~quitOk
    IN
    [ raised  |-> raised,
      value   |-> IF browser = "ok" THEN Dict(jar) ELSE NoneCookies,
      stored  |-> browser = "ok",
      driver  |-> Browser(created, quits, browser, raised),
      log     |-> AuthLog(browser) ]

(***************************************************************************)
(* Responses and their JSON bodies.  A body is described by what           *)
(* response.json() and the two subscripts do with it: `decodable` (json()  *)
(* returns), `data` ("absent": no such key, "null": not an object,         *)
(* "object"), and each field "absent", "null" or its value.                *)
(***************************************************************************)
Body(decodable, data, id, key, u) ==
    [decodable |-> decodable, data |-> data, id |-> id, key |-> key, url |-> u]
NoBody == Body(FALSE, "absent", "absent", "absent", "absent")

CreateBodies ==
    { Body(TRUE, "object", "a1", "k1", "absent"),
      NoBody,
      Body(TRUE, "absent", "absent", "absent", "absent"),
      Body(TRUE, "null", "absent", "absent", "absent"),
      Body(TRUE, "object", "absent", "k1", "absent"),
      Body(TRUE, "object", "a1", "absent", "absent"),
      Body(TRUE, "object", "null", "k1", "absent"),
      Body(TRUE, "object", "a1", "null", "absent") }

UploadBodies ==
    { Body(TRUE, "object", "absent", "ik1", "iu1"),
      NoBody,
      Body(TRUE, "absent", "absent", "absent", "absent"),
      Body(TRUE, "null", "absent", "absent", "absent"),
      Body(TRUE, "object", "absent", "absent", "iu1"),
      Body(TRUE, "object", "absent", "ik1", "absent"),
      Body(TRUE, "object", "absent", "null", "iu1") }

Bodies(stage) ==
    CASE stage = "create" -> CreateBodies
      [] stage = "upload" -> UploadBodies
      [] OTHER -> {NoBody}

Pending == [kind |-> "pending", status |-> 0, body |-> NoBody]
ReturnedNone == [kind |-> "None", status |-> 0, body |-> NoBody]
Raised == [kind |-> "raised", status |-> 0, body |-> NoBody]
Response(status, body) == [kind |-> "response", status |-> status, body |-> body]

\* `if not response`: None is falsy, and so is a requests.Response whose
\* status is an error status (Response.__bool__ is Response.ok).
ResponseFalsy(r) == r.kind = "None" \/ (r.kind = "response" /\ r.status >= 400)

JsonValue(v) == IF v = "null" THEN "None" ELSE v

\* result = response.json(); a = result['data'][f1]; b = result['data'][f2]
ReadFields(body, f1, f2) ==
    CASE ~body.decodable -> [exc |-> "JSONDecodeError", a |-> "None", b |-> "None"]
      [] body.decodable /\ body.data = "absent" ->
            [exc |-> "KeyError", a |-> "None", b |-> "None"]
      [] body.decodable /\ body.data = "null" ->
            [exc |-> "TypeError", a |-> "None", b |-> "None"]
      [] body.decodable /\ body.data = "object"
            /\ (body[f1] = "absent" \/ body[f2] = "absent") ->
            [exc |-> "KeyError", a |-> "None", b |-> "None"]
      [] OTHER ->
            [exc |-> "none", a |-> JsonValue(body[f1]), b |-> JsonValue(body[f2])]

(***************************************************************************)
(* NotePoster._make_request: one pass of the loop body.  `att` is the loop *)
(* variable (0-based), `outcome` what session.request did, `body` the body *)
(* of the response it returned.  The result says which time.sleep calls    *)
(* the pass made and how the call stands after it: still looping           *)
(* (Pending), returned a response, fell out of the loop (ReturnedNone), or *)
(* let an exception other than RequestException through (Raised).          *)
(***************************************************************************)
\* Mutant: the rate-limit wait does not grow with the attempt number.
RateLimitWait_Fixed(att) == WAIT_TIME

RateLimitWait(att) == WAIT_TIME * (att + 1)

\* Mutant: the wait after a transport fault grows like the rate-limit wait.
FaultSleeps_Backoff(att) ==
    IF att < MAX_RETRIES - 1 THEN <<WAIT_TIME * (att + 1)>> ELSE << >>

\* Mutant: a transport fault is followed by a wait at the last attempt too.
FaultSleeps_AlsoAtLast(att) == <<WAIT_TIME>>

FaultSleeps(att) == IF att < MAX_RETRIES - 1 THEN <<WAIT_TIME>> ELSE << >>

\* Mutant: the loop never runs out, a failed attempt is always followed by
\* another one.
NextPass_NeverGivesUp(att) == Pending

NextPass(att) == IF att + 1 < MAX_RETRIES THEN Pending ELSE ReturnedNone

\* Mutant: a server error (5xx) is retried like a 429.
make_request_pass_Retry5xx(att, outcome, body) ==
    CASE outcome.kind = "status" /\ (outcome.status = 429 \/ outcome.status >= 500) ->
            [sleeps |-> <<RateLimitWait(att)>>, ret |-> NextPass(att)]
      [] outcome.kind = "status" /\ outcome.status # 429 /\ outcome.status < 500 ->
            [sleeps |-> << >>, ret |-> Response(outcome.status, body)]
      [] outcome.kind = "fault" ->
            [sleeps |-> FaultSleeps(att), ret |-> NextPass(att)]
      [] OTHER ->
            [sleeps |-> << >>, ret |-> Raised]

\* Mutant: a 429 ends the call at once, with None.
make_request_pass_GiveUpOn429(att, outcome, body) ==
    CASE outcome.kind = "status" /\ outcome.status = 429 ->
            [sleeps |-> << >>, ret |-> ReturnedNone]
      [] outcome.kind = "status" /\ outcome.status # 429 ->
            [sleeps |-> << >>, ret |-> Response(outcome.status, body)]
      [] outcome.kind = "fault" ->
            [sleeps |-> FaultSleeps(att), ret |-> NextPass(att)]
      [] OTHER ->
            [sleeps |-> << >>, ret |-> Raised]

make_request_pass(att, outcome, body) ==
    CASE outcome.kind = "status" /\ outcome.status = 429 ->
            [sleeps |-> <<RateLimitWait(att)>>, ret |-> NextPass(att)]
      [] outcome.kind = "status" /\ outcome.status # 429 ->
            [sleeps |-> << >>, ret |-> Response(outcome.status, body)]
      [] outcome.kind = "fault" ->
            [sleeps |-> FaultSleeps(att), ret |-> NextPass(att)]
      [] OTHER ->
            [sleeps |-> << >>, ret |-> Raised]

\* The time.sleep calls, each tagged with the 1-based attempt it followed.
Slept(att, waits) == [i \in 1..Len(waits) |-> [attempt |-> att + 1, wait |-> waits[i]]]

(***************************************************************************)
(* The three stages.  Each is split at its _make_request call: the part    *)
(* before builds the request, the part after reads the response.           *)
(***************************************************************************)
\* MarkdownProcessor.to_html on the texts of Markdowns.
to_html(text) ==
    CASE text = "" -> ""
      [] text = "# H" -> "<h1>H</h1>"

NoRequest ==
    [stage |-> "none", method |-> "", url |-> << >>, cookies |-> NoneCookies,
     data |-> [name |-> ""]]

CreateRequest(t, md, c) ==
    [stage |-> "create", method |-> "POST", url |-> <<"text_notes">>, cookies |-> c,
     data |-> [body |-> to_html(md), name |-> t, template_key |-> "None"]]

UploadRequest(path, c) ==
    [stage |-> "upload", method |-> "POST", url |-> <<"upload_image">>, cookies |-> c,
     data |-> [file |-> path]]

\* Mutant: the payload carries eyecatch_image_key whatever upload_image
\* returned.
FinalizeData_AlwaysKey(t, md, ikey) ==
    [eyecatch_image_key |-> ikey, body |-> to_html(md), name |-> t,
     status |-> "draft"]

FinalizeData(t, md, ikey) ==
    LET data == [body |-> to_html(md), name |-> t, status |-> "draft"] IN
    IF Truthy(ikey) THEN [eyecatch_image_key |-> ikey] @@ data ELSE data

\* Mutant: the finalization is sent without the bundle of the run.
FinalizeRequest_NoCookies(aid, t, md, c, ikey) ==
    [stage |-> "finalize", method |-> "PUT", url |-> <<"text_notes", aid>>,
     cookies |-> NoneCookies, data |-> FinalizeData(t, md, ikey)]

FinalizeRequest(aid, t, md, c, ikey) ==
    [stage |-> "finalize", method |-> "PUT", url |-> <<"text_notes", aid>>,
     cookies |-> c, data |-> FinalizeData(t, md, ikey)]

(***************************************************************************)
(* What session.request puts on the wire for a request.  A JSON body is    *)
(* serialised anew at every call; a files= body is read from the open file *)
(* object at its current position, which the read leaves at the end.       *)
(***************************************************************************)
Content(req, pos) ==
    CASE req.stage # "upload" -> "json"
      [] req.stage = "upload" /\ pos = "start" -> "file"
      [] OTHER -> "empty"

Transmit(req, pos) ==
    [stage |-> req.stage, method |-> req.method, url |-> req.url,
     cookies |-> req.cookies, data |-> req.data, content |-> Content(req, pos),
     via |-> "_make_request"]

AfterRead(req, pos) == IF req.stage = "upload" THEN "eof" ELSE pos

\* Mutant: create_article sends its request whatever the cookies are.
create_article_check_NoCheck(c) == "request"

\* `if not cookies:` at the head of create_article.
create_article_check(c) == IF ~CookiesTruthy(c) THEN "cookie_required" ELSE "request"

\* `if not cookies:` at the head of update_article_draft.
update_article_draft_check(c) ==
    IF ~CookiesTruthy(c) THEN "cookie_required" ELSE "request"

\* create_article after _make_request returned r.
create_article_result(r) ==
    LET got == ReadFields(r.body, "id", "key") IN
    CASE ResponseFalsy(r) ->
            [raised |-> FALSE, id |-> "None", key |-> "None",
             log |-> <<"create_request_failed">>]
      [] ~ResponseFalsy(r) /\ r.status # 200 ->
            [raised |-> FALSE, id |-> "None", key |-> "None",
             log |-> <<"create_status">>]
      [] ~ResponseFalsy(r) /\ r.status = 200 /\ got.exc = "none" ->
            [raised |-> FALSE, id |-> got.a, key |-> got.b, log |-> << >>]
      [] ~ResponseFalsy(r) /\ r.status = 200
            /\ got.exc \in {"KeyError", "JSONDecodeError"} ->
            [raised |-> FALSE, id |-> "None", key |-> "None",
             log |-> <<"create_parse_error">>]
      [] OTHER ->
            [raised |-> TRUE, id |-> "None", key |-> "None", log |-> << >>]

\* Mutant: a file of exactly the ceiling is rejected (>= instead of >).
upload_image_check_CeilingExclusive(c, exists, size, openOk) ==
    CASE ~CookiesTruthy(c) -> "cookie_required"
      [] CookiesTruthy(c) /\ ~exists -> "file_not_found"
      [] CookiesTruthy(c) /\ exists /\ size >= MAX_IMAGE_BYTES -> "file_too_large"
      [] CookiesTruthy(c) /\ exists /\ size < MAX_IMAGE_BYTES /\ ~openOk ->
            "file_read_error"
      [] OTHER -> "request"

\* Mutant: the size check is missing.
upload_image_check_NoSizeCheck(c, exists, size, openOk) ==
    CASE ~CookiesTruthy(c) -> "cookie_required"
      [] CookiesTruthy(c) /\ ~exists -> "file_not_found"
      [] CookiesTruthy(c) /\ exists /\ ~openOk -> "file_read_error"
      [] OTHER -> "request"

\* upload_image before the request: the cookie check, the two file checks
\* and open().
upload_image_check(c, exists, size, openOk) ==
    CASE ~CookiesTruthy(c) -> "cookie_required"
      [] CookiesTruthy(c) /\ ~exists -> "file_not_found"
      [] CookiesTruthy(c) /\ exists /\ size > MAX_IMAGE_BYTES -> "file_too_large"
      [] CookiesTruthy(c) /\ exists /\ size <= MAX_IMAGE_BYTES /\ ~openOk ->
            "file_read_error"
      [] OTHER -> "request"

\* upload_image after _make_request returned r (or raised).
upload_image_result(r) ==
    LET got == ReadFields(r.body, "key", "url") IN
    CASE r.kind = "raised" ->
            [raised |-> FALSE, key |-> "None", log |-> <<"file_read_error">>]
      [] r.kind # "raised" /\ ResponseFalsy(r) ->
            [raised |-> FALSE, key |-> "None", log |-> << >>]
      [] r.kind = "response" /\ ~ResponseFalsy(r) /\ r.status # 200 ->
            [raised |-> FALSE, key |-> "None", log |-> <<"upload_status">>]
      [] r.kind = "response" /\ r.status = 200 /\ got.exc = "none" ->
            [raised |-> FALSE, key |-> got.a, log |-> << >>]
      [] r.kind = "response" /\ r.status = 200
            /\ got.exc \in {"KeyError", "JSONDecodeError"} ->
            [raised |-> FALSE, key |-> "None", log |-> <<"upload_parse_error">>]
      [] OTHER ->
            [raised |-> TRUE, key |-> "None", log |-> << >>]

\* update_article_draft after _make_request returned r.
update_article_draft_result(r) ==
    CASE ResponseFalsy(r) -> [ok |-> FALSE, log |-> << >>]
      [] ~ResponseFalsy(r) /\ r.status = 200 -> [ok |-> TRUE, log |-> << >>]
      [] OTHER -> [ok |-> FALSE, log |-> <<"update_status">>]

(***************************************************************************)
(* NotePoster.post_to_note: what it does with each stage's result.         *)
(***************************************************************************)
\* Mutant: the check of the bundle is missing.
AfterAuth_NoCheck(c) == "create"

\* Mutant: with a bundle, post_to_note goes straight to the finalization.
AfterAuth_SkipCreate(c) == IF ~CookiesTruthy(c) THEN "done" ELSE "finalize"

\* Mutant: the bundle is tested with `is None`, an empty dict passes.
AfterAuth_NoneOnly(c) == IF c.isNone THEN "done" ELSE "create"

\* `if not cookies: return False`
AfterAuth(c) == IF ~CookiesTruthy(c) THEN "done" ELSE "create"

\* Mutant: the check of article_id is missing.
AfterCreate_NoIdCheck(aid, path) == IF Truthy(path) THEN "upload" ELSE "finalize"

\* Mutant: the upload is attempted whether or not a path was given.
AfterCreate_AlwaysUpload(aid, path) == IF ~Truthy(aid) THEN "done" ELSE "upload"

\* `if not article_id: return False`, then `if image_path:`
AfterCreate(aid, path) ==
    IF ~Truthy(aid) THEN "done"
    ELSE IF Truthy(path) THEN "upload" ELSE "finalize"

\* `if success: ... return True`, else `return False`
Returned(ok) == IF ok THEN "True" ELSE "False"

ArticleUrl(key) == <<"https://note.com", "your_username", "n", key>>

(***************************************************************************)
(* Initial state: a NotePoster just constructed, post_to_note not called.  *)
(***************************************************************************)
NoCalls == [c \in Collaborators |-> 0]
NothingPassed == [s \in Stages |-> NoneCookies]
NoResponses == [s \in Stages |-> Pending]
NoDriver == Browser(FALSE, 0, "none", FALSE)
NoFile == [checked |-> FALSE, exists |-> FALSE, size |-> 0, openOk |-> FALSE]

Init ==
    /\ runs = 0
    /\ pc = "idle"
    /\ authCookies = NoneCookies
    /\ driver = NoDriver
    /\ title = "T"
    /\ markdown_content = "# H"
    /\ image_path = "None"
    /\ cookies = NoneCookies
    /\ article_id = "None"
    /\ article_key = "None"
    /\ image_key = "None"
    /\ calls = NoCalls
    /\ passed = NothingPassed
    /\ wire = << >>
    /\ drafts = 0
    /\ attempt = 0
    /\ outcomes = << >>
    /\ sleeps = << >>
    /\ ret = Pending
    /\ request = NoRequest
    /\ resp = NoResponses
    /\ file = NoFile
    /\ handle = "closed"
    /\ success = "None"
    /\ result = "None"
    /\ url = << >>
    /\ log = << >>

\* The call of post_to_note: a new run starts with fresh locals.
Start ==
    /\ pc \in {"idle", "done"}
    /\ runs < MaxRuns
    /\ runs' = runs + 1
    /\ pc' = "auth"
    /\ \E t \in Titles, md \in Markdowns, path \in ImagePaths :
          /\ title' = t
          /\ markdown_content' = md
          /\ image_path' = path
    /\ driver' = NoDriver
    /\ cookies' = NoneCookies
    /\ article_id' = "None"
    /\ article_key' = "None"
    /\ image_key' = "None"
    /\ calls' = NoCalls
    /\ passed' = NothingPassed
    /\ wire' = << >>
    /\ drafts' = 0
    /\ attempt' = 0
    /\ outcomes' = << >>
    /\ sleeps' = << >>
    /\ ret' = Pending
    /\ request' = NoRequest
    /\ resp' = NoResponses
    /\ file' = NoFile
    /\ handle' = "closed"
    /\ success' = "None"
    /\ result' = "None"
    /\ url' = << >>
    /\ log' = << >>
    /\ UNCHANGED authCookies

\* Mutant: post_to_note has no `except Exception` clause, the fault
\* reaches the caller.
Caught_Escapes ==
    /\ pc' = "done"
    /\ result' = "raised"

\* post_to_note returns False from its `except Exception` clause.
Caught ==
    /\ pc' = "done"
    /\ result' = "False"

\* cookies = self.authenticator.get_cookies(email, password)
Authenticate ==
    /\ pc = "auth"
    /\ \E browser \in BrowserOutcomes, jar \in BrowserJars, quitOk \in BOOLEAN :
          LET got == get_cookies(browser, jar, quitOk) IN
          /\ calls' = [calls EXCEPT !["auth"] = @ + 1]
          /\ driver' = got.driver
          /\ authCookies' = IF got.stored THEN got.value ELSE authCookies
          /\ IF got.raised
                THEN /\ Caught
                     /\ log' = log \o got.log \o <<"post_exception">>
                     /\ UNCHANGED cookies
                ELSE /\ cookies' = got.value
                     /\ pc' = AfterAuth(got.value)
                     /\ result' = IF AfterAuth(got.value) = "done" THEN "False" ELSE result
                     /\ log' = log \o got.log
    /\ UNCHANGED << drafts, handle, runs, title, markdown_content, image_path, article_id,
                    article_key, image_key, passed, wire, attempt, outcomes,
                    sleeps, ret, request, resp, file, success, url >>

\* Entering _make_request with the request a stage built.
Enter(req) ==
    /\ request' = req
    /\ attempt' = 0
    /\ outcomes' = << >>
    /\ sleeps' = << >>
    /\ ret' = Pending

\* create_article up to its _make_request call; without a bundle it returns
\* (None, None) and post_to_note returns False.
CreateCall ==
    /\ pc = "create"
    /\ calls' = [calls EXCEPT !["create"] = @ + 1]
    /\ passed' = [passed EXCEPT !["create"] = cookies]
    /\ IF create_article_check(cookies) = "request"
          THEN /\ pc' = "create_req"
               /\ Enter(CreateRequest(title, markdown_content, cookies))
               /\ UNCHANGED << article_id, article_key, result, log >>
          ELSE /\ article_id' = "None"
               /\ article_key' = "None"
               /\ pc' = AfterCreate("None", image_path)
               /\ result' = "False"
               /\ log' = Append(log, create_article_check(cookies))
               /\ UNCHANGED << attempt, outcomes, sleeps, ret, request >>
    /\ UNCHANGED << drafts, handle, runs, authCookies, driver, title, markdown_content,
                    image_path, cookies, image_key, wire, resp, file, success,
                    url >>

\* One pass of the loop of _make_request: one session.request call.
MakeRequest ==
    /\ pc \in {"create_req", "upload_req", "finalize_req"}
    /\ ret.kind = "pending"
    /\ attempt < MAX_RETRIES
    /\ \E o \in Outcomes(request.stage) :
         \E b \in (IF o = Answer(200) THEN Bodies(request.stage) ELSE {NoBody}) :
            LET pass == make_request_pass(attempt, o, b) IN
            /\ wire' = Append(wire, Transmit(request, handle))
            /\ \E received \in Received(o) :
                  drafts' = Drafts(drafts, request.stage, o, received)
            /\ outcomes' = Append(outcomes, o)
            /\ sleeps' = sleeps \o Slept(attempt, pass.sleeps)
            /\ ret' = pass.ret
    /\ attempt' = attempt + 1
    /\ handle' = AfterRead(request, handle)
    /\ UNCHANGED << runs, pc, authCookies, driver, title, markdown_content,
                    image_path, cookies, article_id, article_key, image_key,
                    calls, passed, request, resp, file, success, result, url,
                    log >>

\* create_article from the return of _make_request, and post_to_note up
\* to its next call.
CreateReturn ==
    /\ pc = "create_req"
    /\ ret.kind # "pending"
    /\ resp' = [resp EXCEPT !["create"] = ret]
    /\ LET got == create_article_result(ret) IN
         IF got.raised
           THEN /\ Caught
                /\ log' = log \o got.log \o <<"post_exception">>
                /\ UNCHANGED << article_id, article_key >>
           ELSE /\ article_id' = got.id
                /\ article_key' = got.key
                /\ pc' = AfterCreate(got.id, image_path)
                /\ result' = IF AfterCreate(got.id, image_path) = "done"
                                THEN "False" ELSE result
                /\ log' = log \o got.log
    /\ UNCHANGED << drafts, handle, runs, authCookies, driver, title, markdown_content,
                    image_path, cookies, image_key, calls, passed, wire,
                    attempt, outcomes, sleeps, ret, request, file, success,
                    url >>

\* The files upload_image can find at image_path: absent, small, exactly at
\* the ceiling, one byte above it, 11 MiB.
FileSizes == {1000, MAX_IMAGE_BYTES, MAX_IMAGE_BYTES + 1, 11 * 1024 * 1024}

\* upload_image up to its _make_request call; when a check fails it returns
\* (None, None) and post_to_note goes on to the finalization.
UploadCall ==
    /\ pc = "upload"
    /\ calls' = [calls EXCEPT !["upload"] = @ + 1]
    /\ passed' = [passed EXCEPT !["upload"] = cookies]
    /\ \E exists \in BOOLEAN, size \in FileSizes, openOk \in BOOLEAN :
          LET check == upload_image_check(cookies, exists, size, openOk) IN
          /\ file' = [checked |-> TRUE, exists |-> exists,
                      size |-> IF exists THEN size ELSE 0,
                      openOk |-> exists /\ size <= MAX_IMAGE_BYTES /\ openOk]
          /\ IF check = "request"
                THEN /\ pc' = "upload_req"
                     /\ Enter(UploadRequest(image_path, cookies))
                     /\ handle' = "start"
                     /\ UNCHANGED << image_key, log >>
                ELSE /\ pc' = "finalize"
                     /\ image_key' = "None"
                     /\ log' = Append(log, check)
                     /\ UNCHANGED << attempt, outcomes, sleeps, ret, request,
                                     handle >>
    /\ UNCHANGED << drafts, runs, authCookies, driver, title, markdown_content,
                    image_path, cookies, article_id, article_key, wire, resp,
                    success, result, url >>

\* upload_image from the return of _make_request, and post_to_note up to
\* its next call.
UploadReturn ==
    /\ pc = "upload_req"
    /\ ret.kind # "pending"
    /\ resp' = [resp EXCEPT !["upload"] = ret]
    /\ LET got == upload_image_result(ret) IN
         IF got.raised
           THEN /\ Caught
                /\ log' = log \o got.log \o <<"post_exception">>
                /\ UNCHANGED image_key
           ELSE /\ image_key' = got.key
                /\ pc' = "finalize"
                /\ log' = log \o got.log
                /\ UNCHANGED result
    /\ handle' = "closed"
    /\ UNCHANGED << drafts, runs, authCookies, driver, title, markdown_content,
                    image_path, cookies, article_id, article_key, calls,
                    passed, wire, attempt, outcomes, sleeps, ret, request,
                    file, success, url >>

\* update_article_draft up to its _make_request call; without a bundle it
\* returns False, and so does post_to_note.
FinalizeCall ==
    /\ pc = "finalize"
    /\ calls' = [calls EXCEPT !["finalize"] = @ + 1]
    /\ passed' = [passed EXCEPT !["finalize"] = cookies]
    /\ IF update_article_draft_check(cookies) = "request"
          THEN /\ pc' = "finalize_req"
               /\ Enter(FinalizeRequest(article_id, title, markdown_content,
                                        cookies, image_key))
               /\ UNCHANGED << success, result, log >>
          ELSE /\ success' = "False"
               /\ result' = "False"
               /\ pc' = "done"
               /\ log' = Append(log, update_article_draft_check(cookies))
               /\ UNCHANGED << attempt, outcomes, sleeps, ret, request >>
    /\ UNCHANGED << drafts, handle, runs, authCookies, driver, title, markdown_content,
                    image_path, cookies, article_id, article_key, image_key,
                    wire, resp, file, url >>

\* update_article_draft from the return of _make_request, and the rest of
\* post_to_note.
FinalizeReturn ==
    /\ pc = "finalize_req"
    /\ ret.kind # "pending"
    /\ resp' = [resp EXCEPT !["finalize"] = ret]
    /\ LET got == update_article_draft_result(ret) IN
         /\ success' = Returned(got.ok)
         /\ result' = Returned(got.ok)
         /\ url' = IF got.ok THEN ArticleUrl(article_key) ELSE url
         /\ log' = log \o got.log
    /\ pc' = "done"
    /\ UNCHANGED << drafts, handle, runs, authCookies, driver, title, markdown_content,
                    image_path, cookies, article_id, article_key, image_key,
                    calls, passed, wire, attempt, outcomes, sleeps, ret,
                    request, file >>

Next ==
    \/ Start
    \/ Authenticate
    \/ CreateCall
    \/ MakeRequest
    \/ CreateReturn
    \/ UploadCall
    \/ UploadReturn
    \/ FinalizeCall
    \/ FinalizeReturn

Spec == Init /\ [][Next]_vars

(***************************************************************************)
(* What the claims speak about.                                            *)
(***************************************************************************)
\* The requests of one stage that reached session.request in this run.
Requests(stage) == {i \in 1..Len(wire) : wire[i].stage = stage}
ReqCount(stage) == Cardinality(Requests(stage))

\* create_article has returned an article_id that post_to_note accepts, read
\* from a 200 response of this run.
DraftCreated ==
    /\ calls["create"] = 1
    /\ resp["create"].kind = "response"
    /\ resp["create"].status = 200
    /\ Truthy(article_id)
    /\ article_id = JsonValue(resp["create"].body.id)

\* The run is over: post_to_note has returned.
RunOver == pc = "done"

\* C1: a finalize request (PUT text_notes/<id>) is issued, and
\* update_article_draft is called, only after create_article of the same run
\* returned a valid article_id; the PUT goes to that id and a create request
\* precedes it on the wire.
C1_FinalizeOnlyAfterDraft ==
    /\ (calls["finalize"] > 0 \/ pc \in {"finalize", "finalize_req"}) => DraftCreated
    /\ \A i \in Requests("finalize") :
          /\ DraftCreated
          /\ wire[i].method = "PUT"
          /\ wire[i].url = <<"text_notes", article_id>>
          /\ \E j \in Requests("create") : j < i

\* C1 witness: a finalize request is on the wire.
C1_Witness == Requests("finalize") # {}

\* get_cookies failed: it was called and post_to_note holds no bundle.
AuthFailed == calls["auth"] = 1 /\ pc # "auth" /\ cookies.isNone

\* C2: when get_cookies fails, post_to_note returns False at once and no
\* HTTP request is issued: no stage is called, nothing is on the wire.
C2_AuthFailureNoRequests ==
    AuthFailed =>
        /\ pc = "done"
        /\ result = "False"
        /\ wire = << >>
        /\ \A s \in Stages : calls[s] = 0 /\ ReqCount(s) = 0

\* C2 witness: a run whose get_cookies returned None is over.
C2_Witness == AuthFailed /\ RunOver /\ driver.created

\* A body whose data.id or data.key is missing or malformed.
MalformedDraft(b) ==
    \/ ~b.decodable
    \/ b.data # "object"
    \/ b.id \in {"absent", "null"}
    \/ b.key \in {"absent", "null"}

\* Draft creation failed in one of the ways C3 lists.
DraftCreateFailure ==
    \/ resp["create"].kind = "None"
    \/ /\ resp["create"].kind = "response"
       /\ \/ resp["create"].status \notin 200..299
          \/ resp["create"].status = 200 /\ MalformedDraft(resp["create"].body)

\* C3 (as claimed): after a non-2xx status, executor exhaustion or a 200
\* body with missing or malformed data.id / data.key, post_to_note returns
\* False and neither upload_image nor update_article_draft is invoked.
C3_DraftFailureStopsRun ==
    DraftCreateFailure =>
        /\ pc = "done"
        /\ result = "False"
        /\ calls["upload"] = 0
        /\ calls["finalize"] = 0
        /\ ReqCount("upload") = 0
        /\ ReqCount("finalize") = 0

\* The image given to the run failed the local validation of upload_image:
\* the file is missing or larger than the ceiling.
ValidationFailed ==
    /\ Truthy(image_path)
    /\ file.checked
    /\ (~file.exists \/ file.size > MAX_IMAGE_BYTES)

\* No finalize payload of this run, sent or about to be sent, carries an
\* eyecatch_image_key.
NoEyecatch ==
    /\ \A i \in Requests("finalize") : "eyecatch_image_key" \notin DOMAIN wire[i].data
    /\ request.stage = "finalize" => "eyecatch_image_key" \notin DOMAIN request.data

\* C4: after a successful draft creation, an image that fails the local
\* validation (missing, or above 10 MiB) sends no upload request and leaves
\* no image key; update_article_draft is still invoked exactly once, its
\* payload has no eyecatch_image_key, and post_to_note returns True when the
\* finalization succeeded (its PUT answered 200).
C4_ValidationFailureStillFinalizes ==
    (DraftCreated /\ ValidationFailed) =>
        /\ ReqCount("upload") = 0
        /\ image_key = "None"
        /\ pc \in {"finalize", "finalize_req", "done"}
        /\ calls["finalize"] = (IF pc = "finalize" THEN 0 ELSE 1)
        /\ NoEyecatch
        /\ RunOver => /\ ReqCount("finalize") >= 1
                      /\ success \in {"True", "False"}
                      /\ result = success
                      /\ (resp["finalize"].kind = "response"
                            /\ resp["finalize"].status = 200) => result = "True"

\* C4 witness: a run with an 11 MiB image ended in success.
C4_Witness ==
    /\ DraftCreated /\ ValidationFailed /\ RunOver
    /\ file.exists /\ file.size = 11 * 1024 * 1024
    /\ result = "True"

\* upload_image was invoked in this run and has returned or raised.
UploadOver == calls["upload"] = 1 /\ pc \in {"finalize", "finalize_req", "done"}

\* C5 (as claimed): whatever the upload does, the run proceeds to the
\* finalization, and its result is the result of the finalization.
C5_UploadNeverSinksRun ==
    (UploadOver /\ RunOver) =>
        /\ calls["finalize"] = 1
        /\ success \in {"True", "False"}
        /\ result = success
        /\ (image_key = "None" => NoEyecatch)

\* C6: upload_image is invoked only when the caller gave an image path
\* (None and the empty string are no path): without one there is no
\* upload_image call and no upload request; with one, a run that reached
\* DraftCreated invokes upload_image exactly once, and never more.
C6_UploadOnlyWithImagePath ==
    /\ calls["upload"] <= 1
    /\ ~Truthy(image_path) => calls["upload"] = 0 /\ ReqCount("upload") = 0
    /\ (Truthy(image_path) /\ DraftCreated /\ pc # "upload") => calls["upload"] = 1
    /\ calls["upload"] = 1 => Truthy(image_path) /\ DraftCreated
    /\ ReqCount("upload") > 0 => calls["upload"] = 1

\* C6 witnesses: a finished run without a path that was finalized, and a
\* finished run with a path whose upload_image was invoked.
C6_Witness ==
    /\ RunOver /\ DraftCreated
    /\ \/ image_path = "None" /\ calls["finalize"] = 1
       \/ image_path = "img.png" /\ calls["upload"] = 1 /\ ReqCount("upload") = MAX_RETRIES

\* C7: get_cookies is invoked exactly once per run; the bundle it returned
\* is the one every stage is called with and every request carries; a
\* failure of a later stage, a 401 included, leads to no second call.
C7_OneBundlePerRun ==
    /\ calls["auth"] <= 1
    /\ pc \notin {"idle", "auth"} => calls["auth"] = 1
    /\ \A s \in Stages : calls[s] > 0 =>
          /\ CookiesTruthy(cookies)
          /\ passed[s] = cookies
          /\ cookies = authCookies
    /\ \A i \in 1..Len(wire) : wire[i].cookies = cookies
    /\ request.stage # "none" => request.cookies = cookies

\* C7 witness: a run that uploaded an image ended after a 401 on the
\* finalization, with one get_cookies call.
C7_Witness ==
    /\ RunOver
    /\ calls["auth"] = 1
    /\ ReqCount("upload") > 0
    /\ resp["finalize"].kind = "response" /\ resp["finalize"].status = 401

\* The current _make_request call: the stage that made it, its passes so
\* far, the waits that followed pass k.
InCall == request.stage # "none"
Passes == 1..Len(outcomes)
WaitsAfter(k) == SelectSeq(sleeps, LAMBDA sl : sl.attempt = k)
AllOutcomes(o) == \A k \in Passes : outcomes[k] = o

\* Every pass of the current call is one request of its stage on the wire.
OneRequestPerPass == InCall => ReqCount(request.stage) = Len(outcomes)

\* C8: while every attempt of a _make_request call receives 429, the call
\* sleeps once per attempt, WAIT_TIME * k after attempt k (strictly
\* increasing), goes on up to MAX_RETRIES attempts and no further, and
\* then returns None.
C8_RateLimitExhaustion ==
    (InCall /\ AllOutcomes(Answer(429))) =>
        /\ OneRequestPerPass
        /\ Len(outcomes) <= MAX_RETRIES
        /\ sleeps = [k \in Passes |-> [attempt |-> k, wait |-> WAIT_TIME * k]]
        /\ \A k \in Passes : k > 1 => sleeps[k].wait > sleeps[k - 1].wait
        /\ ret = (IF Len(outcomes) < MAX_RETRIES THEN Pending ELSE ReturnedNone)

\* C8 witness: a call ended after MAX_RETRIES answers of 429.
C8_Witness ==
    /\ InCall /\ AllOutcomes(Answer(429))
    /\ Len(outcomes) = MAX_RETRIES
    /\ Len(sleeps) = MAX_RETRIES
    /\ ret = ReturnedNone

\* C9: a transport fault at an attempt that is not the last is followed by
\* one sleep of exactly WAIT_TIME and by a retry; a fault at the last
\* attempt by no sleep; and a call whose attempts all ended in transport
\* faults returns None after exactly MAX_RETRIES attempts.
C9_TransportFaultRetry ==
    InCall =>
        /\ \A k \in Passes : outcomes[k] = Fault =>
              /\ k <= MAX_RETRIES
              /\ k < MAX_RETRIES =>
                    /\ WaitsAfter(k) = <<[attempt |-> k, wait |-> WAIT_TIME]>>
                    /\ (Len(outcomes) > k \/ ret = Pending)
              /\ k = MAX_RETRIES =>
                    /\ WaitsAfter(k) = << >>
                    /\ ret = ReturnedNone
        /\ (outcomes # << >> /\ AllOutcomes(Fault)) =>
              /\ OneRequestPerPass
              /\ ret = (IF Len(outcomes) < MAX_RETRIES THEN Pending ELSE ReturnedNone)

\* C9 witness: a call ended after MAX_RETRIES transport faults.
C9_Witness ==
    /\ InCall /\ outcomes # << >> /\ AllOutcomes(Fault)
    /\ Len(outcomes) = MAX_RETRIES
    /\ ret = ReturnedNone
    /\ Len(sleeps) = MAX_RETRIES - 1

\* C10: a response with any status other than 429 ends the call at once:
\* it is the last attempt, it is what _make_request returns, no sleep
\* follows it, and the call has cost as many requests as attempts, one
\* when the response came at the first attempt.
C10_OtherStatusReturnedAtOnce ==
    InCall =>
        /\ \A k \in Passes :
              (outcomes[k].kind = "status" /\ outcomes[k].status # 429) =>
                  /\ k = Len(outcomes)
                  /\ ret.kind = "response"
                  /\ ret.status = outcomes[k].status
                  /\ WaitsAfter(k) = << >>
                  /\ ReqCount(request.stage) = k
        /\ ret.kind = "response" =>
              /\ outcomes # << >>
              /\ outcomes[Len(outcomes)] = Answer(ret.status)
              /\ ret.status # 429

\* C10 witness: a 500 at the first attempt was returned after one request.
C10_Witness ==
    /\ InCall
    /\ outcomes = <<Answer(500)>>
    /\ ret.kind = "response" /\ ret.status = 500
    /\ ReqCount(request.stage) = 1
    /\ sleeps = << >>

\* C11 (as claimed): _make_request never raises to its caller: whatever
\* session.request does at any attempt, the call is retried, returns a
\* response or returns None.
C11_MakeRequestNeverRaises ==
    InCall => ret.kind \in {"pending", "response", "None"}

\* C13 (as claimed): within a stage every attempt puts the same request on
\* the wire: method, URL, cookies and body of attempts 2 and 3 are those of
\* attempt 1, for the image upload as for the JSON stages.
C13_RetryIdenticalRequest ==
    \A i \in 1..Len(wire) : \A j \in 1..Len(wire) :
        wire[i].stage = wire[j].stage => wire[i] = wire[j]

\* update_article_draft has returned in this run.
FinalizeOver == resp["finalize"].kind # "pending"

\* C14 (as claimed): update_article_draft returns True, and the run ends in
\* success, exactly when the PUT was answered with a status in 200..299;
\* it returns False for any other status and for executor exhaustion.
C14_FinalizeAny2xx ==
    FinalizeOver =>
        /\ success = (IF resp["finalize"].kind = "response"
                          /\ resp["finalize"].status \in 200..299
                      THEN "True" ELSE "False")
        /\ result = success

\* The finalize payloads of this run, sent or about to be sent.
FinalizePayloads ==
    {wire[i].data : i \in Requests("finalize")}
        \cup (IF request.stage = "finalize" THEN {request.data} ELSE {})

\* upload_image of this run returned an image key, read from its 200
\* response.
ImageKeyReturned ==
    /\ Truthy(image_key)
    /\ resp["upload"].kind = "response"
    /\ resp["upload"].status = 200
    /\ image_key = JsonValue(resp["upload"].body.key)

\* C15: every finalize payload has status "draft", the rendered body and
\* the title; it has eyecatch_image_key exactly when upload_image of the
\* same run returned an image key, and then its value is that key.
C15_FinalizePayload ==
    /\ Truthy(image_key) => ImageKeyReturned
    /\ \A d \in FinalizePayloads :
          /\ {"body", "name", "status"} \subseteq DOMAIN d
          /\ DOMAIN d \subseteq {"body", "name", "status", "eyecatch_image_key"}
          /\ d.status = "draft"
          /\ d.name = title
          /\ d.body = to_html(markdown_content)
          /\ "eyecatch_image_key" \in DOMAIN d <=> ImageKeyReturned
          /\ "eyecatch_image_key" \in DOMAIN d => d.eyecatch_image_key = image_key

\* C15 witness: a PUT carrying the key of the uploaded image is on the wire.
C15_Witness ==
    \E i \in Requests("finalize") :
        /\ "eyecatch_image_key" \in DOMAIN wire[i].data
        /\ wire[i].data.eyecatch_image_key = "ik1"
        /\ wire[i].data.status = "draft"

\* The run is in Failed: post_to_note has returned False.
Failed == pc = "done" /\ result = "False"

\* The stage failures that abort a run, as post_to_note sees them.
AuthRejected == calls["auth"] = 1 /\ pc # "auth" /\ ~CookiesTruthy(cookies)
CreateRejected == calls["create"] = 1 /\ pc # "create_req" /\ ~Truthy(article_id)
FinalizeRejected == success = "False"

\* Each stage is invoked at most once per run, only the executor repeats a
\* request, at most MAX_RETRIES times within its stage, and a stage failure
\* puts the run in Failed with no later stage invoked.
NoPipelineRetry ==
    /\ \A c \in Collaborators : calls[c] <= 1
    /\ \A s \in Stages : ReqCount(s) <= MAX_RETRIES * calls[s]
    /\ result = "False" => pc = "done"
    /\ AuthRejected => Failed /\ \A s \in Stages : calls[s] = 0
    /\ CreateRejected => Failed /\ calls["upload"] = 0 /\ calls["finalize"] = 0
    /\ FinalizeRejected => Failed

\* In Failed the only step is the caller's next call of post_to_note: no
\* collaborator is called and no request is sent for the failed run.
FailedIsTerminal ==
    Failed => \/ runs' = runs + 1
              \/ calls' = calls /\ wire' = wire /\ pc' = pc /\ result' = result

\* C16: Failed is terminal and the pipeline is never retried as a whole:
\* once a run is in Failed no further collaborator call is made, every
\* stage is invoked at most once per run, and only the executor repeats
\* requests, within one stage.
C16_FailedIsTerminal == []NoPipelineRetry /\ [][FailedIsTerminal]_vars

\* C16 witness: a run is in Failed after its create stage used up the
\* retries of the executor.
C16_Witness ==
    /\ Failed
    /\ resp["create"].kind = "None"
    /\ ReqCount("create") = MAX_RETRIES
    /\ calls = [NoCalls EXCEPT !["auth"] = 1, !["create"] = 1]

\* A fault raised by a collaborator reached post_to_note in this run.
FaultReached == \E i \in 1..Len(log) : log[i] = "post_exception"

\* C17: post_to_note never lets a fault escape: it always returns a boolean,
\* and a run that a fault of the authenticator, of the executor, of the file
\* system or of the response parsing reached returns False.
C17_NoFaultEscapes ==
    /\ RunOver => result \in {"True", "False"}
    /\ ~RunOver => result = "None"
    /\ FaultReached => Failed

\* C17 witnesses: the TypeError of a malformed upload body, raised after the
\* draft was created, ended the run with False; so did the fault of
\* driver.quit().
C17_Witness ==
    /\ FaultReached /\ Failed
    /\ \/ DraftCreated /\ calls["upload"] = 1 /\ resp["upload"].body.data = "null"
       \/ calls["create"] = 0 /\ driver.created

\* get_cookies of this run has returned or raised.
AuthOver == calls["auth"] = 1 /\ pc # "auth"

\* C18: the browser is released on every exit path of get_cookies: when a
\* driver was created (every path but a failed webdriver.Chrome),
\* driver.quit() has been called exactly once when get_cookies is over, on
\* success, timeout, WebDriver fault and any other fault; without a driver
\* quit() is not called.
C18_BrowserReleased ==
    AuthOver =>
        /\ driver.exit \in BrowserOutcomes
        /\ driver.created <=> driver.exit # "nodriver"
        /\ driver.created => driver.quits = 1
        /\ ~driver.created => driver.quits = 0

\* C18 witness: the login timed out and the driver was quit once.
C18_Witness ==
    AuthOver /\ driver.exit = "timeout" /\ driver.created /\ driver.quits = 1

\* C19 (as claimed): every failure of the credential acquisition, a fault of
\* driver start-up or driver release included, is a None result:
\* get_cookies never raises, and returns a bundle only after a complete
\* login.
C19_AuthFailureIsNone ==
    AuthOver =>
        /\ ~driver.raised
        /\ driver.exit # "ok" => cookies.isNone
        /\ ~cookies.isNone => driver.exit = "ok" /\ cookies = authCookies

\* upload_image handed a request to _make_request in this run.
UploadIssued == pc = "upload_req" \/ ReqCount("upload") >= 1

\* upload_image returned (None, None) without any HTTP request.
UploadRefused ==
    /\ ReqCount("upload") = 0
    /\ pc # "upload_req"
    /\ resp["upload"] = Pending
    /\ image_key = "None"

\* The file is missing or above the ceiling: no request, (None, None).
ValidationPrecedesNetwork ==
    (file.checked /\ (~file.exists \/ file.size > MAX_IMAGE_BYTES)) => UploadRefused

\* C20 (as claimed): upload_image returns (None, None) with zero HTTP
\* requests when the file is missing or larger than 10 MiB, and issues the
\* upload request for every existing file of at most 10 MiB.
C20_EveryValidFileUploaded ==
    /\ ValidationPrecedesNetwork
    /\ (file.checked /\ file.exists /\ file.size <= MAX_IMAGE_BYTES) => UploadIssued

\* C20 (amended): upload_image returns (None, None) with zero HTTP requests
\* when the file is missing or larger than 10 MiB, and also when open()
\* fails on it; it issues the upload request for every existing file of at
\* most 10 MiB, exactly 10 MiB included, that open() can open.
C20_ValidReadableFileUploaded ==
    /\ ValidationPrecedesNetwork
    /\ (file.checked /\ file.exists /\ file.size <= MAX_IMAGE_BYTES /\ file.openOk)
          => UploadIssued
    /\ (file.checked /\ file.exists /\ file.size <= MAX_IMAGE_BYTES /\ ~file.openOk)
          => UploadRefused

\* C20 witness: a file of exactly 10 MiB went on the wire.
C20_Witness ==
    /\ file.checked /\ file.exists /\ file.size = 10 * 1024 * 1024
    /\ ReqCount("upload") >= 1

(***************************************************************************)
(* The legacy pipeline, backend/src/note_poster.py, which the scheduler    *)
(* and the cross-platform wrappers of advanced_features.py use.  Its       *)
(* post_to_note has the stages of the improved one, but every stage calls  *)
(* requests.post / requests.put itself, once, inside `except Exception`.   *)
(* The variables are those of the improved pipeline; authCookies is        *)
(* NotePoster.cookies, which the legacy stages read instead of an          *)
(* argument.                                                               *)
(***************************************************************************)
\* NotePoster.get_cookies of note_poster.py: webdriver.Chrome() is called
\* outside the try block, every fault inside it returns None.
legacy_get_cookies(browser, jar, quitOk) ==
    LET created == browser # "nodriver"
        quits == IF created THEN 1 ELSE 0
        raised == ~created \/ ~quitOk
    IN
    [ raised  |-> raised,
      value   |-> IF browser = "ok" THEN Dict(jar) ELSE NoneCookies,
      stored  |-> browser = "ok",
      driver  |-> Browser(created, quits, browser, raised),
      log     |-> IF browser \in {"timeout", "webdriver", "other"}
                    THEN <<"cookie_error">> ELSE << >> ]

\* NotePoster.markdown_to_html of note_poster.py on the texts of Markdowns.
markdown_to_html(text) ==
    CASE text = "" -> "<p></p>"
      [] text = "# H" -> "<h1>H</h1>"

\* What requests.post / requests.put puts on the wire.
LegacyTransmit(req) ==
    [stage |-> req.stage, method |-> req.method, url |-> req.url,
     cookies |-> req.cookies, data |-> req.data, content |-> Content(req, "start"),
     via |-> "requests"]

LegacyCreateRequest(t, md, c) ==
    [stage |-> "create", method |-> "POST", url |-> <<"text_notes">>, cookies |-> c,
     data |-> [body |-> markdown_to_html(md), name |-> t, template_key |-> "None"]]

LegacyFinalizeRequest(aid, t, md, c, ikey) ==
    LET data == [body |-> markdown_to_html(md), name |-> t, status |-> "draft"] IN
    [stage |-> "finalize", method |-> "PUT", url |-> <<"text_notes", aid>>,
     cookies |-> c,
     data |-> IF Truthy(ikey) THEN [eyecatch_image_key |-> ikey] @@ data ELSE data]

\* What the stage holds after its one raw call.
LegacyReceived(o, b) ==
    IF o.kind = "status" THEN Response(o.status, b) ELSE Raised

\* The part of a legacy stage after its raw call: a 200 whose two fields can
\* be read gives them; any other status and any exception gives None.
legacy_read(r, f1, f2) ==
    LET got == ReadFields(r.body, f1, f2) IN
    IF r.kind = "response" /\ r.status = 200 /\ got.exc = "none"
      THEN [a |-> got.a, b |-> got.b,
            log |-> << >>]
      ELSE [a |-> "None", b |-> "None",
            log |-> IF r.kind = "response" /\ r.status # 200
                      THEN <<"status">> ELSE <<"error">>]

LegacyAuthenticate ==
    /\ pc = "auth"
    /\ \E browser \in BrowserOutcomes, jar \in BrowserJars, quitOk \in BOOLEAN :
          LET got == legacy_get_cookies(browser, jar, quitOk) IN
          /\ calls' = [calls EXCEPT !["auth"] = @ + 1]
          /\ driver' = got.driver
          /\ authCookies' = IF got.stored THEN got.value ELSE authCookies
          /\ IF got.raised
                THEN /\ Caught
                     /\ log' = log \o got.log \o <<"post_exception">>
                     /\ UNCHANGED cookies
                ELSE /\ cookies' = got.value
                     /\ pc' = AfterAuth(got.value)
                     /\ result' = IF AfterAuth(got.value) = "done" THEN "False" ELSE result
                     /\ log' = log \o got.log
    /\ UNCHANGED << drafts, handle, runs, title, markdown_content, image_path, article_id,
                    article_key, image_key, passed, wire, attempt, outcomes,
                    sleeps, ret, request, resp, file, success, url >>

\* create_article of note_poster.py, and post_to_note up to its next call.
LegacyCreate ==
    /\ pc = "create"
    /\ calls' = [calls EXCEPT !["create"] = @ + 1]
    /\ passed' = [passed EXCEPT !["create"] = authCookies]
    /\ \E o \in Outcomes("create") :
         \E b \in (IF o = Answer(200) THEN Bodies("create") ELSE {NoBody}) :
            LET got == legacy_read(LegacyReceived(o, b), "id", "key") IN
            /\ wire' = Append(wire, LegacyTransmit(
                          LegacyCreateRequest(title, markdown_content, authCookies)))
            /\ \E received \in Received(o) :
                  drafts' = Drafts(drafts, "create", o, received)
            /\ resp' = [resp EXCEPT !["create"] = LegacyReceived(o, b)]
            /\ article_id' = got.a
            /\ article_key' = got.b
            /\ log' = log \o got.log
            /\ pc' = AfterCreate(got.a, image_path)
            /\ result' = IF AfterCreate(got.a, image_path) = "done"
                            THEN "False" ELSE result
    /\ UNCHANGED << handle, runs, authCookies, driver, title, markdown_content,
                    image_path, cookies, image_key, attempt, outcomes, sleeps,
                    ret, request, file, success, url >>

\* upload_image of note_poster.py: open() and the raw POST are both inside
\* the try block; there is no check of the file before.
LegacyUpload ==
    /\ pc = "upload"
    /\ calls' = [calls EXCEPT !["upload"] = @ + 1]
    /\ passed' = [passed EXCEPT !["upload"] = authCookies]
    /\ \E openOk \in BOOLEAN :
         IF ~openOk
           THEN /\ image_key' = "None"
                /\ log' = Append(log, "error")
                /\ UNCHANGED << wire, drafts, resp >>
           ELSE \E o \in Outcomes("upload") :
                 \E b \in (IF o = Answer(200) THEN Bodies("upload") ELSE {NoBody}) :
                    LET got == legacy_read(LegacyReceived(o, b), "key", "url") IN
                    /\ wire' = Append(wire, LegacyTransmit(
                                  UploadRequest(image_path, authCookies)))
                    /\ UNCHANGED drafts
                    /\ resp' = [resp EXCEPT !["upload"] = LegacyReceived(o, b)]
                    /\ image_key' = got.a
                    /\ log' = log \o got.log
    /\ pc' = "finalize"
    /\ UNCHANGED << handle, runs, authCookies, driver, title, markdown_content,
                    image_path, cookies, article_id, article_key, attempt,
                    outcomes, sleeps, ret, request, file, success, result, url >>

\* update_article_draft of note_poster.py, and the rest of post_to_note.
LegacyFinalize ==
    /\ pc = "finalize"
    /\ calls' = [calls EXCEPT !["finalize"] = @ + 1]
    /\ passed' = [passed EXCEPT !["finalize"] = authCookies]
    /\ \E o \in Outcomes("finalize") :
          LET r == LegacyReceived(o, NoBody)
              ok == r.kind = "response" /\ r.status = 200
          IN
          /\ wire' = Append(wire, LegacyTransmit(
                        LegacyFinalizeRequest(article_id, title, markdown_content,
                                              authCookies, image_key)))
          /\ UNCHANGED drafts
          /\ resp' = [resp EXCEPT !["finalize"] = r]
          /\ success' = Returned(ok)
          /\ result' = Returned(ok)
          /\ url' = IF ok THEN ArticleUrl(article_key) ELSE url
          /\ log' = IF ok THEN log
                    ELSE Append(log, IF r.kind = "response" THEN "status" ELSE "error")
    /\ pc' = "done"
    /\ UNCHANGED << handle, runs, authCookies, driver, title, markdown_content,
                    image_path, cookies, article_id, article_key, image_key,
                    attempt, outcomes, sleeps, ret, request, file >>

LegacyNext ==
    \/ Start
    \/ LegacyAuthenticate
    \/ LegacyCreate
    \/ LegacyUpload
    \/ LegacyFinalize

LegacySpec == Init /\ [][LegacyNext]_vars

\* C12 (as claimed): every HTTP request of a pipeline stage is issued from
\* inside the executor, so no stage makes a raw network call and no stage
\* is handed a 429 or a transport fault that the retry policy did not see.
C12_AllRequestsThroughExecutor ==
    /\ \A i \in 1..Len(wire) : wire[i].via = "_make_request"
    /\ \A s \in Stages :
          resp[s].kind = "response" => resp[s].status # 429

(***************************************************************************)
(* The end-to-end behaviour of a run.                                      *)
(***************************************************************************)
\* The identity was valid: get_cookies returned a bundle post_to_note accepts.
ValidIdentity == AuthOver /\ CookiesTruthy(cookies)

\* The call of _make_request in progress, or the last one that returned, is
\* that of `stage`, and its first attempt was answered 200.
FirstAttemptOk(stage) ==
    /\ request.stage = stage
    /\ outcomes # << >>
    /\ outcomes[1] = Answer(200)

\* create_article was answered 200 with a well-formed body by the only
\* request it sent.
CreateSucceededAtOnce ==
    /\ resp["create"].kind = "response"
    /\ resp["create"].status = 200
    /\ ~MalformedDraft(resp["create"].body)
    /\ ReqCount("create") = 1

\* The call trace of the scenario: what is on the wire when the run is over.
ScenarioWire ==
    << Transmit(CreateRequest(title, markdown_content, cookies), "closed"),
       Transmit(FinalizeRequest(JsonValue(resp["create"].body.id), title,
                                markdown_content, cookies, "None"), "closed") >>

\* C21: in a run with a valid identity and no image whose remote calls all
\* succeed at their first attempt, a create call answered at its first
\* attempt costs one request; and when the run is over there were one
\* get_cookies call, one create request, no upload_image call and no upload
\* request, one finalize request with status "draft" and no image key, the
\* result is True and the URL ends in the article_key the create call
\* returned.
C21_EndToEndTrace ==
    /\ (FirstAttemptOk("create") /\ ret.kind = "response"
            /\ ~MalformedDraft(ret.body)) =>
          /\ ReqCount("create") = 1
          /\ pc # "create_req" => CreateSucceededAtOnce /\ DraftCreated
    /\ (RunOver /\ ValidIdentity /\ ~Truthy(image_path) /\ CreateSucceededAtOnce
            /\ FirstAttemptOk("finalize")) =>
          /\ calls = [NoCalls EXCEPT !["auth"] = 1, !["create"] = 1,
                                     !["finalize"] = 1]
          /\ wire = ScenarioWire
          /\ wire[2].data.status = "draft"
          /\ result = "True"
          /\ url = ArticleUrl(JsonValue(resp["create"].body.key))
          /\ url[Len(url)] = resp["create"].body.key

\* C21 witness: such a run is over, with the key k1 in its URL.
C21_Witness ==
    /\ RunOver /\ ValidIdentity /\ image_path = "None" /\ CreateSucceededAtOnce
    /\ FirstAttemptOk("finalize")
    /\ result = "True"
    /\ url = ArticleUrl("k1")
    /\ Len(wire) = 2

\* The positions of post_to_note in program order.
Rank(position) ==
    CASE position = "idle" -> 0
      [] position = "auth" -> 1
      [] position = "create" -> 2
      [] position = "create_req" -> 3
      [] position = "upload" -> 4
      [] position = "upload_req" -> 5
      [] position = "finalize" -> 6
      [] position = "finalize_req" -> 7
      [] position = "done" -> 8

StageOrder(stage) ==
    CASE stage = "create" -> 1
      [] stage = "upload" -> 2
      [] stage = "finalize" -> 3

\* A stage is in progress from its call to its return.
InProgress(stage) ==
    calls[stage] = 1 /\ pc = (CASE stage = "create" -> "create_req"
                                [] stage = "upload" -> "upload_req"
                                [] stage = "finalize" -> "finalize_req")
CreateOver == calls["create"] = 1 /\ ~InProgress("create")

\* Each stage is called only after the stage before it has returned:
\* create_article after get_cookies gave a bundle, upload_image after
\* create_article gave an id, update_article_draft after create_article and,
\* when there is an image path, after upload_image returned, with or
\* without a key; the requests are on the wire in stage order; no two stages
\* are in progress together.
SequentialStages ==
    /\ calls["create"] > 0 => ValidIdentity
    /\ calls["upload"] > 0 => CreateOver /\ Truthy(article_id)
    /\ calls["finalize"] > 0 =>
          /\ CreateOver /\ Truthy(article_id)
          /\ Truthy(image_path) => UploadOver
          /\ ~InProgress("upload")
    /\ \A i \in 1..Len(wire) : \A j \in 1..Len(wire) :
          i < j => StageOrder(wire[i].stage) <= StageOrder(wire[j].stage)
    /\ \A s \in Stages : \A t \in Stages :
          (InProgress(s) /\ InProgress(t)) => s = t
    /\ \A s \in Stages : InProgress(s) =>
          \A t \in Stages : StageOrder(t) > StageOrder(s) => calls[t] = 0

\* Within a run the position only moves forward in program order.
ForwardOnly == runs' = runs => Rank(pc') >= Rank(pc)

\* C22: in every run the stages execute one after the other in the order
\* authentication, draft creation, image upload (if any), finalization: a
\* stage starts only after the previous one has returned, and no two stages
\* are ever in progress at the same time.
C22_StagesSequential == []SequentialStages /\ [][ForwardOnly]_vars

\* C22 witness: a run in which all three stages sent requests is over.
C22_Witness ==
    /\ RunOver
    /\ \A s \in Stages : calls[s] = 1 /\ ReqCount(s) >= 1
    /\ result = "True"

(***************************************************************************)
(* The stage methods called on their own, as the unit tests call them:     *)
(* create_article, upload_image or update_article_draft is handed any      *)
(* cookies argument, a missing or an empty bundle included.  `runs` counts *)
(* the calls; the returned values are in article_id / article_key,         *)
(* image_key and success; `result` is "raised" when the method raised.     *)
(***************************************************************************)
\* The cookies arguments of a direct call: None, {} and a bundle.
CookieArgs == {NoneCookies, Dict({}), Dict({<<"session", "s1">>})}

ReqPos(stage) ==
    CASE stage = "create" -> "create_req"
      [] stage = "upload" -> "upload_req"
      [] stage = "finalize" -> "finalize_req"

\* The part of a stage method before its _make_request call.
StageCheck(stage, c, exists, size, openOk) ==
    CASE stage = "create" -> create_article_check(c)
      [] stage = "upload" -> upload_image_check(c, exists, size, openOk)
      [] stage = "finalize" -> update_article_draft_check(c)

StageRequest(stage, c, t, md, path, aid, ikey) ==
    CASE stage = "create" -> CreateRequest(t, md, c)
      [] stage = "upload" -> UploadRequest(path, c)
      [] stage = "finalize" -> FinalizeRequest(aid, t, md, c, ikey)

\* One of the three methods is called and runs up to its _make_request
\* call, or returns when a check fails.
DirectCall ==
    /\ pc \in {"idle", "done"}
    /\ runs < MaxRuns
    /\ runs' = runs + 1
    /\ \E s \in Stages, c \in CookieArgs, exists \in BOOLEAN,
          size \in {1000, 11 * 1024 * 1024}, openOk \in BOOLEAN,
          ikey \in {"None", "ik1"} :
          LET check == StageCheck(s, c, exists, size, openOk)
              req == StageRequest(s, c, "T", "# H", "img.png", "a1", ikey)
          IN
          /\ calls' = [NoCalls EXCEPT ![s] = 1]
          /\ passed' = [NothingPassed EXCEPT ![s] = c]
          /\ cookies' = c
          /\ title' = "T"
          /\ markdown_content' = "# H"
          /\ image_path' = IF s = "upload" THEN "img.png" ELSE "None"
          /\ article_id' = IF s = "finalize" THEN "a1" ELSE "None"
          /\ article_key' = "None"
          /\ image_key' = IF s = "finalize" THEN ikey ELSE "None"
          /\ file' = IF s = "upload" /\ CookiesTruthy(c)
                       THEN [checked |-> TRUE, exists |-> exists,
                             size |-> IF exists THEN size ELSE 0,
                             openOk |-> exists /\ size <= MAX_IMAGE_BYTES /\ openOk]
                       ELSE NoFile
          /\ handle' = IF s = "upload" /\ check = "request" THEN "start" ELSE "closed"
          /\ success' = IF s = "finalize" /\ check # "request" THEN "False" ELSE "None"
          /\ log' = IF check = "request" THEN << >> ELSE <<check>>
          /\ IF check = "request"
                THEN /\ pc' = ReqPos(s)
                     /\ Enter(req)
                ELSE /\ pc' = "done"
                     /\ Enter(NoRequest)
    /\ wire' = << >>
    /\ drafts' = 0
    /\ resp' = NoResponses
    /\ result' = "None"
    /\ url' = << >>
    /\ driver' = NoDriver
    /\ UNCHANGED authCookies

\* The method called goes on from the return of _make_request to its own
\* return.
DirectReturn ==
    /\ pc \in {"create_req", "upload_req", "finalize_req"}
    /\ ret.kind # "pending"
    /\ resp' = [resp EXCEPT ![request.stage] = ret]
    /\ pc' = "done"
    /\ handle' = "closed"
    /\ CASE request.stage = "create" ->
              LET got == create_article_result(ret) IN
              /\ article_id' = got.id
              /\ article_key' = got.key
              /\ result' = IF got.raised THEN "raised" ELSE result
              /\ log' = log \o got.log
              /\ UNCHANGED << image_key, success >>
         [] request.stage = "upload" ->
              LET got == upload_image_result(ret) IN
              /\ image_key' = got.key
              /\ result' = IF got.raised THEN "raised" ELSE result
              /\ log' = log \o got.log
              /\ UNCHANGED << article_id, article_key, success >>
         [] request.stage = "finalize" ->
              LET got == update_article_draft_result(ret) IN
              /\ success' = Returned(got.ok)
              /\ log' = log \o got.log
              /\ UNCHANGED << article_id, article_key, image_key, result >>
    /\ UNCHANGED << runs, authCookies, driver, title, markdown_content,
                    image_path, cookies, calls, passed, wire, drafts, attempt,
                    outcomes, sleeps, ret, request, file, url >>

DirectNext ==
    \/ DirectCall
    \/ MakeRequest
    \/ DirectReturn

DirectSpec == Init /\ [][DirectNext]_vars

\* The stage method called last, and whether it is over.
Called(stage) == calls[stage] = 1
CallOver == pc = "done"

\* C23: called with a missing (None) or empty ({}) cookie bundle,
\* create_article and upload_image return (None, None) and
\* update_article_draft returns False, each at once, without handing any
\* request to _make_request.
C23_NoCookiesNoRequest ==
    \A s \in Stages :
        (Called(s) /\ ~CookiesTruthy(passed[s])) =>
            /\ CallOver
            /\ wire = << >>
            /\ request = NoRequest
            /\ result = "None"
            /\ log = <<"cookie_required">>
            /\ s = "create" => article_id = "None" /\ article_key = "None"
            /\ s = "upload" => image_key = "None" /\ ~file.checked
            /\ s = "finalize" => success = "False"

\* C23 witness: update_article_draft was called with an empty dict.
C23_Witness ==
    /\ Called("finalize") /\ passed["finalize"] = Dict({})
    /\ CallOver /\ success = "False"

\* A 200 body create_article cannot read both fields from: undecodable
\* JSON, no data field, a data field that is not an object, or no id / key
\* field in it.
NotWellFormed(b) ==
    \/ ~b.decodable
    \/ b.data # "object"
    \/ b.id = "absent"
    \/ b.key = "absent"

\* C24 (as claimed): create_article never raises; it returns (None, None)
\* when the executor returned None and when the 200 body is not
\* well-formed, a data field that is not an object included; and it returns
\* an (id, key) pair only when both were read from the one well-formed body.
C24_CreateReturnsNoneOnBadBody ==
    (Called("create") /\ CallOver /\ CookiesTruthy(passed["create"])) =>
        /\ result # "raised"
        /\ (resp["create"].kind = "None"
              \/ (resp["create"].kind = "response" /\ resp["create"].status = 200
                    /\ NotWellFormed(resp["create"].body))) =>
              article_id = "None" /\ article_key = "None"
        /\ (article_id # "None" \/ article_key # "None") =>
              /\ resp["create"].kind = "response"
              /\ resp["create"].status = 200
              /\ ~NotWellFormed(resp["create"].body)
              /\ article_id = JsonValue(resp["create"].body.id)
              /\ article_key = JsonValue(resp["create"].body.key)

\* C25 (as claimed): whenever post_to_note returns True it has exposed the
\* URL https://note.com/<owner>/n/<article_key> whose last segment is the
\* non-null article_key that the create call of this run returned; a run
\* that has not succeeded exposes no URL.
C25_UrlFromArticleKey ==
    /\ result = "True" =>
          /\ url = ArticleUrl(article_key)
          /\ Len(url) = 4
          /\ url[1] = "https://note.com"
          /\ url[3] = "n"
          /\ url[4] # "None"
          /\ resp["create"].kind = "response"
          /\ url[4] = resp["create"].body.key
    /\ result # "True" => url = << >>

\* The logger.error lines of each failure kind.
AuthLines == {"login_timeout", "webdriver_error", "login_unexpected"}
CreateLines == {"cookie_required", "create_request_failed", "create_status",
                "create_parse_error"}
FinalizeLines == {"cookie_required", "update_status"}
Logged(lines) == \E i \in 1..Len(log) : log[i] \in lines

\* C26 (as claimed): on every path where post_to_note returns False an
\* error line naming the kind of the failure has been logged before the
\* return: for an authentication failure, an empty cookie set included, for
\* a draft-creation failure and for a finalization failure, executor
\* exhaustion included.
C26_EveryFailureLogged ==
    Failed =>
        /\ log # << >>
        /\ (AuthRejected /\ ~FaultReached) => Logged(AuthLines)
        /\ (CreateRejected /\ ~FaultReached) => Logged(CreateLines)
        /\ FinalizeRejected => Logged(FinalizeLines)

\* The call of _make_request made by `stage` has returned to it, and the
\* stage has returned to post_to_note.
StageReturned(stage) ==
    /\ request.stage = stage
    /\ pc # ReqPos(stage)
    /\ resp[stage] = ret

\* The current call received only 429 answers before its last attempt, at
\* least one, and another status at the last.
RateLimitedThenAnswered ==
    /\ InCall
    /\ Len(outcomes) >= 2
    /\ \A k \in Passes : k < Len(outcomes) => outcomes[k] = Answer(429)
    /\ outcomes[Len(outcomes)].kind = "status"
    /\ outcomes[Len(outcomes)].status # 429

\* What _make_request returns when the last answer of the current call
\* comes at the first attempt, with no 429 before it.
Without429 == make_request_pass(0, outcomes[Len(outcomes)], ret.body).ret

\* The stage did with the response r what it does with it in any call.
SameStageOutcome(stage, r) ==
    CASE stage = "create" ->
            LET got == create_article_result(r) IN
            IF got.raised THEN Failed /\ FaultReached
            ELSE /\ article_id = got.id
                 /\ article_key = got.key
                 /\ Truthy(got.id) <=> pc \in {"upload", "finalize"}
      [] stage = "upload" ->
            LET got == upload_image_result(r) IN
            IF got.raised THEN Failed /\ FaultReached
            ELSE image_key = got.key /\ pc = "finalize"
      [] stage = "finalize" ->
            LET got == update_article_draft_result(r) IN
            /\ success = Returned(got.ok)
            /\ result = success

\* C27: a call that receives 429 answers and then another status within
\* MAX_RETRIES attempts returns the response with that status, and the
\* stage does with it what it does when it arrives at the first attempt;
\* the call returns None only when all MAX_RETRIES attempts are used up,
\* each by a 429 or a transport fault, and then create_article and
\* update_article_draft fail the run while upload_image is absorbed.
C27_RateLimitTransparent ==
    /\ RateLimitedThenAnswered =>
          /\ Len(outcomes) <= MAX_RETRIES
          /\ ret = Without429
          /\ ret.kind = "response"
          /\ ret.status = outcomes[Len(outcomes)].status
          /\ \A s \in Stages : StageReturned(s) => SameStageOutcome(s, Without429)
    /\ (InCall /\ ret = ReturnedNone) =>
          /\ Len(outcomes) = MAX_RETRIES
          /\ \A k \in Passes : outcomes[k] \in {Answer(429), Fault}
          /\ StageReturned("create") => Failed
          /\ StageReturned("finalize") => Failed
          /\ StageReturned("upload") =>
                /\ image_key = "None"
                /\ pc = "finalize"
                /\ result = "None"
    /\ (InCall /\ AllOutcomes(Answer(429)) /\ Len(outcomes) < MAX_RETRIES) =>
          ret = Pending

\* C27 witness: the draft was created by the third attempt, after two 429.
C27_Witness ==
    /\ StageReturned("create")
    /\ outcomes = <<Answer(429), Answer(429), Answer(200)>>
    /\ DraftCreated
    /\ pc = "finalize"

\* C28 (as claimed): at most one Article Draft is created on the platform
\* per run: whatever the executor outcomes of the draft creation are,
\* retried transport timeouts included, the platform receives at most one
\* create request that it can act on.
C28_AtMostOneDraft == drafts <= 1

\* C29 (as claimed): the Credential Bundle is run-local: when a run of
\* post_to_note is over no component of the poster holds the bundle, and a
\* later run on the same instance starts with no credential state of an
\* earlier run.
C29_BundleRunLocal ==
    /\ RunOver => authCookies = NoneCookies
    /\ pc = "auth" => authCookies = NoneCookies

(***************************************************************************)
(* Two NotePoster instances in one process, each running post_to_note      *)
(* once, their stages interleaved in any order.  In this specification     *)
(* every variable that belongs to an instance is a function of the         *)
(* instance; `outcomes` is the history of what the collaborators of each   *)
(* instance did, stage by stage, and `log` is the one logger both          *)
(* instances write to: NotePoster() without a logger argument takes        *)
(* setup_logging(), which returns logging.getLogger(__name__), the same    *)
(* object for every instance.  A stage is one step: the whole method,      *)
(* its _make_request loop included.                                        *)
(***************************************************************************)
Instances == {1, 2}

\* Mutant: the authenticator is one object for all instances (a class
\* attribute instead of an attribute set in __init__).
AuthenticatorOf_Shared(p) == 1

\* self.authenticator = NoteAuthenticator(self.logger): one per instance.
AuthenticatorOf(p) == p

\* The cookies the browser of an instance harvests for its identity.
JarOf(p) ==
    IF p = 1 THEN {<<"session", "s1">>} ELSE {<<"session", "s2">>, <<"csrf", "c2">>}

\* _make_request as a whole: the loop over the attempts, given what
\* session.request does at each of them.
RECURSIVE make_request(_, _, _)
make_request(outs, body, att) ==
    LET pass == make_request_pass(att, outs[att + 1], body) IN
    IF pass.ret = Pending /\ att + 1 < Len(outs)
      THEN make_request(outs, body, att + 1)
      ELSE [ret |-> pass.ret, sent |-> att + 1]

\* What session.request does during one _make_request call: answered at
\* once, refused at once, answered after a 429, never answered.
ExecScripts ==
    { <<Answer(200)>>, <<Answer(500)>>, <<Answer(429), Answer(200)>>,
      <<Fault, Answer(429), Fault>> }

\* The requests one _make_request call puts on the wire.
Sent(n, req) == [i \in 1..n |-> Transmit(req, IF i = 1 THEN "start" ELSE "eof")]

\* What the collaborators of a stage do during one call of it.
Event(kind, browser, jar, outs, body, exists) ==
    [kind |-> kind, browser |-> browser, jar |-> jar, outs |-> outs,
     body |-> body, exists |-> exists]

Events(position, p) ==
    CASE position = "auth" ->
            {Event("auth", b, JarOf(p), << >>, NoBody, TRUE) : b \in {"ok", "timeout"}}
      [] position = "create" ->
            {Event("create", "none", {}, o, Body(TRUE, "object", "a1", "k1", "absent"),
                   TRUE) : o \in ExecScripts}
      [] position = "upload" ->
            {Event("upload", "none", {}, o, Body(TRUE, "object", "absent", "ik1", "iu1"),
                   e) : o \in ExecScripts, e \in BOOLEAN}
      [] position = "finalize" ->
            {Event("finalize", "none", {}, o, NoBody, TRUE) : o \in ExecScripts}
      [] OTHER -> {}

\* The state of one run of post_to_note when it is called.
Local0(path) ==
    [pc |-> "auth", cookies |-> NoneCookies, authCookies |-> NoneCookies,
     article_id |-> "None", article_key |-> "None", image_key |-> "None",
     calls |-> NoCalls, wire |-> << >>, success |-> "None", result |-> "None",
     image_path |-> path, lines |-> << >>]

\* One stage of post_to_note, run on the state L of its instance with the
\* collaborators doing ev.
StageStep(L, ev) ==
    CASE ev.kind = "auth" ->
            LET got == get_cookies(ev.browser, ev.jar, TRUE)
                next == AfterAuth(got.value)
            IN [L EXCEPT !.calls = [@ EXCEPT !["auth"] = @ + 1],
                         !.cookies = got.value,
                         !.authCookies = IF got.stored THEN got.value ELSE @,
                         !.pc = next,
                         !.result = IF next = "done" THEN "False" ELSE @,
                         !.lines = @ \o <<"auth_start">> \o got.log]
      [] ev.kind = "create" ->
            LET run == make_request(ev.outs, ev.body, 0)
                got == create_article_result(run.ret)
                next == IF got.raised THEN "done"
                        ELSE AfterCreate(got.id, L.image_path)
            IN [L EXCEPT !.calls = [@ EXCEPT !["create"] = @ + 1],
                         !.wire = @ \o Sent(run.sent, CreateRequest("T", "# H", L.cookies)),
                         !.article_id = got.id,
                         !.article_key = got.key,
                         !.pc = next,
                         !.result = IF next = "done" THEN "False" ELSE @,
                         !.lines = @ \o got.log]
      [] ev.kind = "upload" ->
            LET check == upload_image_check(L.cookies, ev.exists, 1000, TRUE)
                run == make_request(ev.outs, ev.body, 0)
                got == upload_image_result(run.ret)
            IN IF check # "request"
                 THEN [L EXCEPT !.calls = [@ EXCEPT !["upload"] = @ + 1],
                                !.pc = "finalize",
                                !.lines = Append(@, check)]
                 ELSE [L EXCEPT !.calls = [@ EXCEPT !["upload"] = @ + 1],
                                !.wire = @ \o Sent(run.sent,
                                                   UploadRequest(L.image_path, L.cookies)),
                                !.image_key = got.key,
                                !.pc = IF got.raised THEN "done" ELSE "finalize",
                                !.result = IF got.raised THEN "False" ELSE @,
                                !.lines = @ \o got.log]
      [] ev.kind = "finalize" ->
            LET run == make_request(ev.outs, ev.body, 0)
                got == update_article_draft_result(run.ret)
            IN [L EXCEPT !.calls = [@ EXCEPT !["finalize"] = @ + 1],
                         !.wire = @ \o Sent(run.sent,
                                            FinalizeRequest(L.article_id, "T", "# H",
                                                            L.cookies, L.image_key)),
                         !.success = Returned(got.ok),
                         !.result = Returned(got.ok),
                         !.pc = "done",
                         !.lines = @ \o got.log]

\* The lines an instance wrote to the logger.
LinesOf(p) ==
    LET own == SelectSeq(log, LAMBDA e : e.who = p) IN
    [i \in 1..Len(own) |-> own[i].line]

\* The state of the run of instance p, read from the objects it uses.
Local(p) ==
    [pc |-> pc[p], cookies |-> cookies[p],
     authCookies |-> authCookies[AuthenticatorOf(p)],
     article_id |-> article_id[p], article_key |-> article_key[p],
     image_key |-> image_key[p], calls |-> calls[p], wire |-> wire[p],
     success |-> success[p], result |-> result[p],
     image_path |-> image_path[p], lines |-> LinesOf(p)]

PairInit ==
    /\ runs = 0
    /\ pc = [p \in Instances |-> "auth"]
    /\ authCookies = [p \in Instances |-> NoneCookies]
    /\ driver = NoDriver
    /\ title = "T"
    /\ markdown_content = "# H"
    /\ image_path \in [Instances -> {"None", "img.png"}]
    /\ cookies = [p \in Instances |-> NoneCookies]
    /\ article_id = [p \in Instances |-> "None"]
    /\ article_key = [p \in Instances |-> "None"]
    /\ image_key = [p \in Instances |-> "None"]
    /\ calls = [p \in Instances |-> NoCalls]
    /\ passed = NothingPassed
    /\ wire = [p \in Instances |-> << >>]
    /\ drafts = 0
    /\ attempt = 0
    /\ outcomes = [p \in Instances |-> << >>]
    /\ sleeps = << >>
    /\ ret = Pending
    /\ request = NoRequest
    /\ resp = NoResponses
    /\ file = NoFile
    /\ handle = "closed"
    /\ success = [p \in Instances |-> "None"]
    /\ result = [p \in Instances |-> "None"]
    /\ url = << >>
    /\ log = << >>

\* Instance p runs the stage it stands at, its collaborators doing ev.
PairStep(p, ev) ==
    LET L == StageStep(Local(p), ev)
        old == Len(LinesOf(p))
    IN
    /\ pc' = [pc EXCEPT ![p] = L.pc]
    /\ cookies' = [cookies EXCEPT ![p] = L.cookies]
    /\ authCookies' = [authCookies EXCEPT ![AuthenticatorOf(p)] = L.authCookies]
    /\ article_id' = [article_id EXCEPT ![p] = L.article_id]
    /\ article_key' = [article_key EXCEPT ![p] = L.article_key]
    /\ image_key' = [image_key EXCEPT ![p] = L.image_key]
    /\ calls' = [calls EXCEPT ![p] = L.calls]
    /\ wire' = [wire EXCEPT ![p] = L.wire]
    /\ success' = [success EXCEPT ![p] = L.success]
    /\ result' = [result EXCEPT ![p] = L.result]
    /\ outcomes' = [outcomes EXCEPT ![p] = Append(@, ev)]
    /\ log' = log \o [i \in 1..(Len(L.lines) - old) |->
                        [who |-> p, line |-> L.lines[old + i]]]
    /\ UNCHANGED << runs, driver, title, markdown_content, image_path, passed,
                    drafts, attempt, sleeps, ret, request, resp, file, handle,
                    url >>

PairAuthenticate ==
    \E p \in Instances : pc[p] = "auth" /\ \E ev \in Events("auth", p) : PairStep(p, ev)

PairCreate ==
    \E p \in Instances : pc[p] = "create" /\ \E ev \in Events("create", p) : PairStep(p, ev)

PairUpload ==
    \E p \in Instances : pc[p] = "upload" /\ \E ev \in Events("upload", p) : PairStep(p, ev)

PairFinalize ==
    \E p \in Instances :
        pc[p] = "finalize" /\ \E ev \in Events("finalize", p) : PairStep(p, ev)

PairNext ==
    \/ PairAuthenticate
    \/ PairCreate
    \/ PairUpload
    \/ PairFinalize

PairSpec == PairInit /\ [][PairNext]_vars

\* The run of an instance executed alone: post_to_note applied, stage after
\* stage, to the first n of the collaborator responses h.
RECURSIVE Alone(_, _, _)
Alone(path, h, n) ==
    IF n = 0 THEN Local0(path) ELSE StageStep(Alone(path, h, n - 1), h[n])

\* Each instance is where its run is when executed alone with the
\* collaborator responses it has had: same calls, same requests on the
\* wire, same values, same result, same log lines.
RunsIndependent ==
    \A p \in Instances : Local(p) = Alone(image_path[p], outcomes[p], Len(outcomes[p]))

NL == "\n"
\* The backtick, which a TLA+ string cannot hold.
BT == "BACKTICK"
Word == {"a", "b"}
Whitespace == {" ", NL}
Tags == {"<pre>", "</pre>", "<code>", "</code>", "<h1>", "</h1>", "<h2>", "</h2>",
         "<h3>", "</h3>", "<li>", "</li>", "<strong>", "</strong>", "<em>", "</em>",
         "<a href=\"", "\">", "</a>", "<p>", "</p>"}

Least(S) == CHOOSE k \in S : \A h \in S : k <= h

\* str.find(pat, i): the first position from i on where pat starts, 0 when
\* there is none.
Find(s, pat, i) ==
    LET hits == {k \in i..(Len(s) - Len(pat) + 1) :
                    SubSeq(s, k, k + Len(pat) - 1) = pat}
    IN IF hits = {} THEN 0 ELSE Least(hits)

StartsWith(s, i, pat) ==
    /\ i + Len(pat) - 1 <= Len(s)
    /\ SubSeq(s, i, i + Len(pat) - 1) = pat

NoMatch == [end |-> 0, out |-> << >>]

\* r'```(\w+)?\n(.*?)\n```' with re.DOTALL, tried at position i:
\* the fence, the longest run of word characters, a newline, the shortest
\* text (newlines included) that is followed by a newline and a fence.
FencedCode(s, i) ==
    LET fence == <<BT, BT, BT>>
        p == Least({k \in (i + 3)..(Len(s) + 1) : k = Len(s) + 1 \/ s[k] \notin Word})
        q == Find(s, <<NL>> \o fence, p + 1)
    IN IF StartsWith(s, i, fence) /\ p <= Len(s) /\ s[p] = NL /\ q # 0
         THEN [end |-> q + 3,
               out |-> <<"<pre>", "<code>">> \o SubSeq(s, p + 1, q - 1)
                          \o <<"</code>", "</pre>">>]
         ELSE NoMatch

\* r'`([^`]+)`': a backtick, one or more characters that are no backtick
\* (newlines included), a backtick.
InlineCode(s, i) ==
    LET j == Find(s, <<BT>>, i + 1) IN
    IF s[i] = BT /\ j > i + 1
      THEN [end |-> j, out |-> <<"<code>">> \o SubSeq(s, i + 1, j - 1) \o <<"</code>">>]
      ELSE NoMatch

\* r'\*\*(.+?)\*\*' and r'\*(.+?)\*': the mark, the shortest non-empty text
\* without a newline that is followed by the mark.
Emphasis(s, i, mark, open, close) ==
    LET n == Len(mark)
        j == Find(s, mark, i + n + 1)
    IN IF StartsWith(s, i, mark) /\ j # 0
          /\ \A k \in (i + n)..(j - 1) : s[k] # NL
         THEN [end |-> j + n - 1,
               out |-> <<open>> \o SubSeq(s, i + n, j - 1) \o <<close>>]
         ELSE NoMatch

\* r'\[([^\]]+)\]\(([^)]+)\)'
Link(s, i) ==
    LET j == Find(s, <<"]">>, i + 1)
        k == Find(s, <<")">>, j + 2)
    IN IF s[i] = "[" /\ j > i + 1 /\ StartsWith(s, j + 1, <<"(">>) /\ k > j + 2
         THEN [end |-> k,
               out |-> <<"<a href=\"">> \o SubSeq(s, j + 2, k - 1) \o <<"\">">>
                          \o SubSeq(s, i + 1, j - 1) \o <<"</a>">>]
         ELSE NoMatch

Match(pass, s, i) ==
    CASE pass = "fenced" -> FencedCode(s, i)
      [] pass = "inline" -> InlineCode(s, i)
      [] pass = "bold" -> Emphasis(s, i, <<"*", "*">>, "<strong>", "</strong>")
      [] pass = "italic" -> Emphasis(s, i, <<"*">>, "<em>", "</em>")
      [] pass = "link" -> Link(s, i)

\* re.sub of an inline pattern: the leftmost match is replaced and the scan
\* goes on behind it.
RECURSIVE Sub(_, _, _)
Sub(pass, s, i) ==
    IF i > Len(s) THEN << >>
    ELSE LET m == Match(pass, s, i) IN
         IF m.end = 0 THEN <<s[i]>> \o Sub(pass, s, i + 1)
                      ELSE m.out \o Sub(pass, s, m.end + 1)

\* re.sub of r'^<prefix>(.+)$' with re.MULTILINE: every line that starts
\* with the prefix and has something behind it.
RECURSIVE LineSub(_, _, _, _, _)
LineSub(s, i, prefix, open, close) ==
    IF i > Len(s) THEN << >>
    ELSE LET nl == Find(s, <<NL>>, i)
             e == IF nl = 0 THEN Len(s) + 1 ELSE nl
             line == SubSeq(s, i, e - 1)
             n == Len(prefix)
             out == IF Len(line) > n /\ SubSeq(line, 1, n) = prefix
                      THEN <<open>> \o SubSeq(line, n + 1, Len(line)) \o <<close>>
                      ELSE line
         IN IF e > Len(s) THEN out
                          ELSE out \o <<NL>> \o LineSub(s, e + 1, prefix, open, close)

\* str.split('\n\n') from position i on.
RECURSIVE Split(_, _)
Split(s, i) ==
    LET k == Find(s, <<NL, NL>>, i) IN
    IF k = 0 THEN <<SubSeq(s, i, Len(s))>>
             ELSE <<SubSeq(s, i, k - 1)>> \o Split(s, k + 2)

\* str.strip()
Strip(s) ==
    LET ink == {k \in 1..Len(s) : s[k] \notin Whitespace} IN
    IF ink = {} THEN << >>
    ELSE SubSeq(s, Least(ink), CHOOSE k \in ink : \A h \in ink : h <= k)

\* Mutant: every block becomes a paragraph unless it starts with '<', an
\* empty one too.
Paragraph_WrapEmpty(block) ==
    LET para == Strip(block) IN
    IF para = << >> \/ para[1] \notin Tags \cup {"<"}
      THEN <<"<p>">> \o para \o <<"</p>">>
      ELSE para

\* The loop over the blocks: a block that is not empty and does not start
\* with '<' becomes a paragraph, an empty block is dropped.
Paragraph(block) ==
    LET para == Strip(block) IN
    IF para # << >> /\ para[1] \notin Tags \cup {"<"}
      THEN <<"<p>">> \o para \o <<"</p>">>
      ELSE para

\* '\n'.join(paragraphs)
RECURSIVE Join(_, _)
Join(blocks, i) ==
    IF i > Len(blocks) THEN << >>
    ELSE LET para == Paragraph(blocks[i])
             rest == Join(blocks, i + 1)
         IN CASE para = << >> -> rest
              [] rest = << >> -> para
              [] OTHER -> para \o <<NL>> \o rest

\* MarkdownProcessor._simple_markdown_to_html
_simple_markdown_to_html(text) ==
    LET fenced == Sub("fenced", text, 1)
        inline == Sub("inline", fenced, 1)
        h3 == LineSub(inline, 1, <<"#", "#", "#", " ">>, "<h3>", "</h3>")
        h2 == LineSub(h3, 1, <<"#", "#", " ">>, "<h2>", "</h2>")
        h1 == LineSub(h2, 1, <<"#", " ">>, "<h1>", "</h1>")
        li == LineSub(h1, 1, <<"-", " ">>, "<li>", "</li>")
        bold == Sub("bold", li, 1)
        italic == Sub("italic", bold, 1)
        link == Sub("link", italic, 1)
    IN Join(Split(link, 1), 1)
\* markdown.markdown(text, extensions=[...]) of the package `markdown`, which
\* is no part of this repository: a blank source gives the empty string, and
\* the rendering of any other source is kept as a term of that source.
markdown_markdown(text) ==
    IF Strip(text) = << >> THEN << >> ELSE <<"markdown(">> \o text \o <<")">>

\* MarkdownProcessor.to_html: `import markdown` is tried at every call and is
\* found exactly when the package is installed.
MarkdownProcessor_to_html(found, text) ==
    IF found THEN markdown_markdown(text) ELSE _simple_markdown_to_html(text)

(***************************************************************************)
(* RenderSpec: the two renderings of one run.  The run is taken at the     *)
(* point where create_article is called with a bundle; create_article      *)
(* builds its payload, then update_article_draft builds its own.  Here     *)
(* markdown_content is a text as above and file tells what the import      *)
(* system finds on the disk.                                               *)
(***************************************************************************)
MaxLen == 3
Alphabet == {"a", "#", " ", NL, "*", "-", BT}
Samples ==
    { <<"#", " ", "H", NL, NL, "p", "a", "r", "a">>,
      <<"#", "#", "#", " ", "a", NL, "#", "#", " ", "a", NL, "-", " ", "a">>,
      <<"*", "*", "b", "*", "*", " ", "*", "a", "*">>,
      <<"[", "x", "]", "(", "u", ")">>,
      <<BT, BT, BT, "a", NL, "#", " ", "b", NL, BT, BT, BT>>,
      <<BT, BT, BT, NL, NL, BT, BT, BT, NL, NL, BT, "a", BT>>,
      <<" ", NL, NL, NL, NL, " ", "a", " ">> }
Texts == UNION {[1..n -> Alphabet] : n \in 0..MaxLen} \cup Samples

Installed(found) == [checked |-> FALSE, markdown |-> found]
Bundle == Dict({<<"session", "s1">>})

\* Mutant: update_article_draft renders with the built-in renderer only.
RenderedFinalizeRequest_BuiltIn(found, aid, t, md, c, ikey) ==
    [FinalizeRequest(aid, t, "", c, ikey) EXCEPT
        !.data.body = _simple_markdown_to_html(md)]

\* The request of create_article and of update_article_draft for a text.
RenderedCreateRequest(found, t, md, c) ==
    [CreateRequest(t, "", c) EXCEPT !.data.body = MarkdownProcessor_to_html(found, md)]

RenderedFinalizeRequest(found, aid, t, md, c, ikey) ==
    [FinalizeRequest(aid, t, "", c, ikey) EXCEPT
        !.data.body = MarkdownProcessor_to_html(found, md)]

RenderInit ==
    /\ runs = 1
    /\ pc = "create"
    /\ authCookies = Bundle
    /\ driver = NoDriver
    /\ title = "T"
    /\ markdown_content \in Texts
    /\ image_path = "None"
    /\ cookies = Bundle
    /\ article_id = "None"
    /\ article_key = "None"
    /\ image_key = "None"
    /\ calls = [NoCalls EXCEPT !["auth"] = 1]
    /\ passed = NothingPassed
    /\ wire = << >>
    /\ drafts = 0
    /\ attempt = 0
    /\ outcomes = << >>
    /\ sleeps = << >>
    /\ ret = Pending
    /\ request = NoRequest
    /\ resp = NoResponses
    /\ \E found \in BOOLEAN : file = Installed(found)
    /\ handle = "closed"
    /\ success = "None"
    /\ result = "None"
    /\ url = << >>
    /\ log = << >>

\* create_article up to its _make_request call; the draft it creates is a1.
RenderCreate ==
    /\ pc = "create"
    /\ create_article_check(cookies) = "request"
    /\ LET req == RenderedCreateRequest(file.markdown, title, markdown_content, cookies) IN
       /\ request' = req
       /\ wire' = Append(wire, Transmit(req, handle))
    /\ calls' = [calls EXCEPT !["create"] = @ + 1]
    /\ passed' = [passed EXCEPT !["create"] = cookies]
    /\ article_id' = "a1"
    /\ article_key' = "k1"
    /\ pc' = "finalize"
    /\ UNCHANGED << runs, authCookies, driver, title, markdown_content, image_path,
                    cookies, image_key, drafts, attempt, outcomes, sleeps, ret,
                    resp, file, handle, success, result, url, log >>

\* update_article_draft up to its _make_request call.
RenderFinalize ==
    /\ pc = "finalize"
    /\ update_article_draft_check(cookies) = "request"
    /\ LET req == RenderedFinalizeRequest(file.markdown, article_id, title,
                                          markdown_content, cookies, image_key) IN
       /\ request' = req
       /\ wire' = Append(wire, Transmit(req, handle))
    /\ calls' = [calls EXCEPT !["finalize"] = @ + 1]
    /\ passed' = [passed EXCEPT !["finalize"] = cookies]
    /\ pc' = "done"
    /\ UNCHANGED << runs, authCookies, driver, title, markdown_content, image_path,
                    cookies, article_id, article_key, image_key, drafts, attempt,
                    outcomes, sleeps, ret, resp, file, handle, success, result,
                    url, log >>

RenderNext ==
    \/ RenderCreate
    \/ RenderFinalize

RenderSpec == RenderInit /\ [][RenderNext]_vars

AllThreeSucceeded ==
    /\ CookiesTruthy(cookies)
    /\ Truthy(article_id)
    /\ success = "True"

\* C32: post_to_note returns True if and only if authentication returned a
\* bundle, draft creation returned an article_id and the finalization
\* succeeded; nothing about the image enters, so for given results of these
\* three stages the run returns the same with no image, with an uploaded
\* image and with a failed upload.
C32_ResultIffThreeStages ==
    RunOver =>
        /\ result \in {"True", "False"}
        /\ result = "True" <=> AllThreeSucceeded

\* A run whose upload failed and that returned True all the same.
C32_Witness ==
    /\ RunOver
    /\ result = "True"
    /\ AllThreeSucceeded
    /\ calls["upload"] = 1
    /\ resp["upload"].kind = "response"
    /\ resp["upload"].status = 500
    /\ image_key = "None"

\* A run is under way: post_to_note was called and has not returned.
Running == pc \notin {"idle", "done"}

\* The steps of a run, the call of post_to_note left aside.
Step ==
    \/ Authenticate
    \/ CreateCall
    \/ MakeRequest
    \/ CreateReturn
    \/ UploadCall
    \/ UploadReturn
    \/ FinalizeCall
    \/ FinalizeReturn

\* Every blocking call returns: a run that can take a step takes one.
FairSpec == Spec /\ WF_vars(Step)

\* A stage never issues more than MAX_RETRIES requests, a run never more
\* than three times as many, and the browser is started at most once.
RunBounded ==
    /\ \A s \in Stages : ReqCount(s) <= MAX_RETRIES
    /\ Len(wire) <= 3 * MAX_RETRIES
    /\ calls["auth"] <= 1
    /\ driver.quits <= 1

\* C33: every run ends, in Finalized (True) or in Failed (False), whatever
\* the executor's outcomes are, provided every blocking call returns; each
\* stage issues at most MAX_RETRIES requests, so a run issues at most nine
\* HTTP requests, and it logs in with the browser at most once.
C33_RunTerminates ==
    /\ []RunBounded
    /\ Running ~> (RunOver /\ result \in {"True", "False"})

\* A run that used the whole budget of every stage: nine requests.
C33_Witness ==
    /\ RunOver
    /\ Len(wire) = 3 * MAX_RETRIES
    /\ \A s \in Stages : ReqCount(s) = MAX_RETRIES
    /\ calls["auth"] = 1

\* The outcomes after which _make_request tries again.
Retryable(o) == o = Answer(429) \/ o = Fault
AllRetryable == \A k \in Passes : Retryable(outcomes[k])

\* C34: in any mix of 429 answers and transport faults both draw on the one
\* budget of MAX_RETRIES attempts (the call ends with None after
\* MAX_RETRIES of them, whatever the mix); a 429 at the k-th attempt of the
\* call is followed by a wait of WAIT_TIME * k, however the attempts before
\* it failed, the last attempt included; a transport fault is followed by a
\* wait of WAIT_TIME, except at the last attempt, where none follows.
C34_MixedRetryBudget ==
    (InCall /\ AllRetryable) =>
        /\ OneRequestPerPass
        /\ Len(outcomes) <= MAX_RETRIES
        /\ ret = (IF Len(outcomes) < MAX_RETRIES THEN Pending ELSE ReturnedNone)
        /\ \A k \in Passes :
              /\ outcomes[k] = Answer(429) =>
                    WaitsAfter(k) = <<[attempt |-> k, wait |-> WAIT_TIME * k]>>
              /\ outcomes[k] = Fault =>
                    WaitsAfter(k) = IF k < MAX_RETRIES
                                      THEN <<[attempt |-> k, wait |-> WAIT_TIME]>>
                                      ELSE << >>

\* A fault, then a 429, then a fault: waits of WAIT_TIME and 2 * WAIT_TIME,
\* none after the last attempt, and the call returned None.
C34_Witness ==
    /\ InCall
    /\ outcomes = <<Fault, Answer(429), Fault>>
    /\ sleeps = <<[attempt |-> 1, wait |-> WAIT_TIME],
                  [attempt |-> 2, wait |-> 2 * WAIT_TIME]>>
    /\ ret = ReturnedNone

\* get_cookies went through the whole login, returned the dict it stored,
\* and the dict is empty.
EmptyBundleReturned ==
    /\ calls["auth"] = 1
    /\ pc # "auth"
    /\ driver.exit = "ok"
    /\ ~cookies.isNone
    /\ cookies.jar = {}
    /\ authCookies = cookies

\* C35: a login that completes with an empty cookie set counts as a failed
\* authentication: post_to_note returns False at once, create_article is
\* not called and no request is issued, although get_cookies returned a
\* dict and not None.
C35_EmptyBundleIsAuthFailure ==
    EmptyBundleReturned =>
        /\ pc = "done"
        /\ result = "False"
        /\ wire = << >>
        /\ \A s \in Stages : calls[s] = 0 /\ ReqCount(s) = 0

C35_Witness ==
    /\ EmptyBundleReturned
    /\ RunOver
    /\ result = "False"
    /\ calls["create"] = 0

(***************************************************************************)
(* The legacy pipeline against the improved one.  A state of LegacySpec    *)
(* tells what every collaborator did in the legacy run; the improved       *)
(* post_to_note is run, stage after stage, against the same collaborators. *)
(***************************************************************************)
\* Every HTTP call of the legacy run was answered, with a status other than
\* 429, so the executor of the improved pipeline would have called once.
AnsweredAtOnce ==
    \A s \in Stages :
        resp[s] = Pending \/ (resp[s].kind = "response" /\ resp[s].status # 429)

\* driver.quit() returned in the legacy run.
QuitReturned == driver.raised => driver.exit = "nodriver"

\* What the collaborators of a stage did in the legacy run.  A stage whose
\* call left no response is the upload whose file could not be opened.
Met(stage) ==
    CASE stage = "auth" ->
            Event("auth", driver.exit, cookies.jar, << >>, NoBody, TRUE)
      [] stage # "auth" /\ resp[stage] = Pending ->
            Event(stage, "none", {}, <<Answer(200)>>, NoBody, FALSE)
      [] OTHER ->
            Event(stage, "none", {}, <<Answer(resp[stage].status)>>,
                  resp[stage].body, TRUE)

\* post_to_note of improved_note_poster.py run against these collaborators.
ImprovedRun ==
    LET L1 == StageStep(Local0(image_path), Met("auth"))
        L2 == IF L1.pc = "create" THEN StageStep(L1, Met("create")) ELSE L1
        L3 == IF L2.pc = "upload" THEN StageStep(L2, Met("upload")) ELSE L2
    IN IF L3.pc = "finalize" THEN StageStep(L3, Met("finalize")) ELSE L3

\* C37 (as claimed): with every HTTP call answered definitively at its
\* first attempt, the legacy post_to_note and the improved one invoke the
\* same stages in the same order and return the same boolean for the same
\* stage outcomes, a failed image upload included.
C37_LegacyAgreesWithImproved ==
    (RunOver /\ AnsweredAtOnce /\ QuitReturned) =>
        /\ calls = ImprovedRun.calls
        /\ result = ImprovedRun.result

====
